---- MODULE Spec2Model ----
(***************************************************************************)
(* gatehouse: the policy capability, the AND/OR/NOT combinators, the       *)
(* PolicyBuilder and the PermissionChecker of src/src/lib.rs, as a state   *)
(* machine.  A host first sets up policies (constructors, add_policy) and  *)
(* then runs evaluate_access; an evaluation is a stack of frames, one per  *)
(* evaluate_access call that has not returned yet, and it advances one     *)
(* call or one return at a time, which is where the async code can         *)
(* suspend.                                                                *)
(***************************************************************************)
EXTENDS Naturals, Sequences, FiniteSets, TLC

VARIABLES
    policies,          \* PermissionChecker.policies (Vec<Arc<dyn Policy>>)
    builder,           \* the PolicyBuilder value the host is chaining calls on
    built,             \* what the host's latest constructor call returned
    pc,                \* per task: "idle", "running" or "done"
    input,             \* per task: the (subject, action, resource, context) passed in
    stack,             \* per task: the evaluate_access calls in progress
    ret,               \* per task: the value the innermost finished call returned
    result,            \* per task: what the outermost evaluate_access returned
    calls,             \* per task: the paths of the policies invoked, in order
    returns,           \* per task: every finished policy call: path, policy, result
    audit,             \* the "gatehouse::security" events emitted, in order
    evaluation_count,  \* the AtomicUsize shared by the CountingPolicy instances
    resolver_calls,    \* per task: the has_relationship calls made, in order
    printed            \* what the host last rendered with format, if anything

vars == <<policies, builder, built, pc, input, stack, ret, result, calls,
          returns, audit, evaluation_count, resolver_calls, printed>>

----------------------------------------------------------------------------
(* Bounds of the model *)

MaxPolicies == 3
MaxChildren == 2
MaxAccessPolicies == 2

(* The host's domain values *)
Subjects == {"Alice", "Bob"}
Actions == {"read", "write"}
Resources == {"doc1", "doc2"}
Contexts == {"enabled", "disabled"}
Inputs == [subject : Subjects, action : Actions, resource : Resources,
           context : Contexts]
Tasks == {"t1", "t2"}

(* Option<T>: None, Some(x) *)
None == << >>
Some(x) == << x >>
IsSome(o) == o # None
Unwrap(o) == o[1]

(* All sequences over S of length lo..hi *)
SeqsOf(S, lo, hi) == UNION { [1..n -> S] : n \in lo..hi }

----------------------------------------------------------------------------
(* Constants of the library *)

DEFAULT_SECURITY_RULE_CATEGORY == "Access Control"
PERMISSION_CHECKER_POLICY_TYPE == "PermissionChecker"

(* CombineOp and its Display *)
CombineOp == {"And", "Or", "Not"}
CombineOpDisplay(op) ==
    CASE op = "And" -> "AND"
      [] op = "Or" -> "OR"
      [] op = "Not" -> "NOT"

(* PolicyEvalResult: the three variants *)
Granted(policy_type, reason) ==
    [tag |-> "Granted", policy_type |-> policy_type, reason |-> reason]
Denied(policy_type, reason) ==
    [tag |-> "Denied", policy_type |-> policy_type, reason |-> reason]
Combined(policy_type, operation, children, outcome) ==
    [tag |-> "Combined", policy_type |-> policy_type, operation |-> operation,
     children |-> children, outcome |-> outcome]

(* PolicyEvalResult::is_granted *)
is_granted(r) ==
    CASE r.tag = "Granted" -> TRUE
      [] r.tag = "Denied" -> FALSE
      [] r.tag = "Combined" -> r.outcome

(* variant: only a grant has a reason to report *)
reason_of_GrantedOnly(r) ==
    CASE r.tag = "Granted" -> r.reason
      [] r.tag = "Denied" -> None
      [] r.tag = "Combined" -> None

(* PolicyEvalResult::reason *)
reason_of(r) ==
    CASE r.tag = "Granted" -> r.reason
      [] r.tag = "Denied" -> Some(r.reason)
      [] r.tag = "Combined" -> None

(* EvalTrace::with_root *)
with_root(r) == [root |-> Some(r)]

(* AccessEvaluation: the two variants *)
AccessGranted(policy_type, reason, trace) ==
    [tag |-> "Granted", policy_type |-> policy_type, reason |-> reason,
     trace |-> trace]
AccessDenied(trace, reason) ==
    [tag |-> "Denied", trace |-> trace, reason |-> reason]

----------------------------------------------------------------------------
(* Policies.  A policy value is a record whose kind names the type that    *)
(* implements the trait; the host's closures are modelled by the set of    *)
(* arguments they accept.                                                  *)

Allow == "Allow"
Deny == "Deny"

AlwaysAllowPolicy == [kind |-> "AlwaysAllowPolicy"]
AlwaysDenyPolicy(reason) == [kind |-> "AlwaysDenyPolicy", reason |-> reason]
CountingPolicy(res) == [kind |-> "CountingPolicy", result |-> res]
FeatureFlagPolicy == [kind |-> "FeatureFlagPolicy"]

IsCombinator(p) == p.kind \in {"AndPolicy", "OrPolicy", "NotPolicy"}

(* Policy::policy_type of every implementation *)
policy_type(p) ==
    CASE p.kind = "AlwaysAllowPolicy" -> "AlwaysAllowPolicy"
      [] p.kind = "AlwaysDenyPolicy" -> "AlwaysDenyPolicy"
      [] p.kind = "CountingPolicy" -> "CountingPolicy"
      [] p.kind = "FeatureFlagPolicy" -> "FeatureFlagPolicy"
      [] p.kind = "InternalPolicy" -> p.name
      [] p.kind = "RbacPolicy" -> "RbacPolicy"
      [] p.kind = "AbacPolicy" -> "AbacPolicy"
      [] p.kind = "RebacPolicy" -> "RebacPolicy"
      [] p.kind = "AndPolicy" -> "AndPolicy"
      [] p.kind = "OrPolicy" -> "OrPolicy"
      [] p.kind = "NotPolicy" -> "NotPolicy"

(* Result<T, EmptyPoliciesError> *)
Ok(p) == [ok |-> TRUE, policy |-> p]
Err(msg) == [ok |-> FALSE, err |-> msg]

(* try_new without the is_empty check *)
AndPolicy_try_new_Unchecked(ps) ==
    Ok([kind |-> "AndPolicy", policies |-> ps])

(* AndPolicy::try_new *)
AndPolicy_try_new(ps) ==
    IF ps = << >>
    THEN Err("AndPolicy must have at least one policy")
    ELSE Ok([kind |-> "AndPolicy", policies |-> ps])

(* OrPolicy::try_new *)
OrPolicy_try_new(ps) ==
    IF ps = << >>
    THEN Err("OrPolicy must have at least one policy")
    ELSE Ok([kind |-> "OrPolicy", policies |-> ps])

(* NotPolicy::new *)
NotPolicy_new(p) == [kind |-> "NotPolicy", policy |-> p]

----------------------------------------------------------------------------
(* PolicyBuilder and InternalPolicy *)

(* The closures the host passes to the builder, each as the set it accepts *)
SubjectPreds == { {"Alice"} }
ActionPreds == { {"read"} }
ResourcePreds == { {"doc1"} }
ContextPreds == { {"enabled"} }
Owner == [doc1 |-> "Alice", doc2 |-> "Bob"]
ExtraConditions == { {in \in Inputs : Owner[in.resource] = in.subject} }
BuilderNames == {"BuiltPolicy"}

(* PolicyBuilder::new *)
PolicyBuilder_new(name) ==
    [name |-> name, effect |-> Allow, subject_pred |-> None,
     action_pred |-> None, resource_pred |-> None, context_pred |-> None,
     extra_condition |-> None]

(* Option::is_some_and in place of is_none_or *)
is_some_and(o, x) == o # None /\ x \in Unwrap(o)

(* Option::is_none_or, the closure applied being membership *)
is_none_or(o, x) == o = None \/ x \in Unwrap(o)

(* variant: the closure is true when any one of the five checks is *)
BuildPredicate_Any(b) ==
    { in \in Inputs :
        \/ is_none_or(b.subject_pred, in.subject)
        \/ is_none_or(b.action_pred, in.action)
        \/ is_none_or(b.resource_pred, in.resource)
        \/ is_none_or(b.context_pred, in.context)
        \/ is_none_or(b.extra_condition, in) }

(* The closure PolicyBuilder::build boxes: the inputs it returns true on *)
BuildPredicate(b) ==
    { in \in Inputs :
        /\ is_none_or(b.subject_pred, in.subject)
        /\ is_none_or(b.action_pred, in.action)
        /\ is_none_or(b.resource_pred, in.resource)
        /\ is_none_or(b.context_pred, in.context)
        /\ is_none_or(b.extra_condition, in) }

(* PolicyBuilder::build *)
PolicyBuilder_build(b) ==
    [kind |-> "InternalPolicy", name |-> b.name, effect |-> b.effect,
     predicate |-> BuildPredicate(b)]

(* variant: a Deny policy whose predicate does not match lets the call pass *)
InternalPolicy_evaluate_access_DenyInverts(p, in) ==
    IF in \in p.predicate
    THEN IF p.effect = Allow
         THEN Granted(p.name, Some("Policy allowed access"))
         ELSE Denied(p.name, "Policy denied access")
    ELSE IF p.effect = Allow
         THEN Denied(p.name, "Policy predicate did not match")
         ELSE Granted(p.name, Some("Policy predicate did not match"))

(* variant: the effect is not looked at *)
InternalPolicy_evaluate_access_EffectIgnored(p, in) ==
    IF in \in p.predicate
    THEN Granted(p.name, Some("Policy allowed access"))
    ELSE Denied(p.name, "Policy predicate did not match")

(* InternalPolicy::evaluate_access *)
InternalPolicy_evaluate_access(p, in) ==
    IF in \in p.predicate
    THEN IF p.effect = Allow
         THEN Granted(p.name, Some("Policy allowed access"))
         ELSE Denied(p.name, "Policy denied access")
    ELSE Denied(p.name, "Policy predicate did not match")

(* AlwaysAllowPolicy::evaluate_access (tests) *)
AlwaysAllowPolicy_evaluate_access(p, in) ==
    Granted(policy_type(p), Some("Always allow policy"))

(* AlwaysDenyPolicy::evaluate_access (tests) *)
AlwaysDenyPolicy_evaluate_access(p, in) ==
    Denied(policy_type(p), p.reason)

(* variant: the policy keeps state between calls and grants only the      *)
(* first call made on it                                                   *)
CountingPolicy_evaluate_access_Stateful(p, in) ==
    IF p.result /\ evaluation_count = 0
    THEN Granted(policy_type(p), Some("Counting policy granted"))
    ELSE Denied(policy_type(p), "Counting policy denied")

(* CountingPolicy::evaluate_access (tests), the counter bump aside *)
CountingPolicy_evaluate_access(p, in) ==
    IF p.result
    THEN Granted(policy_type(p), Some("Counting policy granted"))
    ELSE Denied(policy_type(p), "Counting policy denied")

(* FeatureFlagContext.feature_enabled of a context (tests) *)
feature_enabled(context) == context = "enabled"

(* FeatureFlagPolicy::evaluate_access (tests) *)
FeatureFlagPolicy_evaluate_access(p, in) ==
    IF feature_enabled(in.context)
    THEN Granted(policy_type(p), Some("Feature flag enabled"))
    ELSE Denied(policy_type(p), "Feature flag disabled")

----------------------------------------------------------------------------
(* The built-in policies.  A resolver closure is the function it computes, *)
(* a condition closure the set of inputs it is true on, a relationship     *)
(* resolver the tuples it holds.                                           *)

(* RbacPolicy::new *)
RbacPolicy_new(required_roles_resolver, user_roles_resolver) ==
    [kind |-> "RbacPolicy",
     required_roles_resolver |-> required_roles_resolver,
     user_roles_resolver |-> user_roles_resolver]

(* variant: every required role must be held *)
has_role_All(required_roles, user_roles) ==
    \A i \in 1..Len(required_roles) :
        \E j \in 1..Len(user_roles) : user_roles[j] = required_roles[i]

(* required_roles.iter().any(|role| user_roles.contains(role)) *)
has_role(required_roles, user_roles) ==
    \E i \in 1..Len(required_roles) :
        \E j \in 1..Len(user_roles) : user_roles[j] = required_roles[i]

(* variant: the role check is made only when the context's flag is on *)
RbacPolicy_evaluate_access_ContextGated(p, in) ==
    LET required_roles == p.required_roles_resolver[<<in.resource, in.action>>]
        user_roles == p.user_roles_resolver[in.subject]
    IN IF feature_enabled(in.context) /\ has_role(required_roles, user_roles)
       THEN Granted(policy_type(p), Some("User has required role"))
       ELSE Denied(policy_type(p), "User doesn't have required role")

(* RbacPolicy::evaluate_access *)
RbacPolicy_evaluate_access(p, in) ==
    LET required_roles == p.required_roles_resolver[<<in.resource, in.action>>]
        user_roles == p.user_roles_resolver[in.subject]
    IN IF has_role(required_roles, user_roles)
       THEN Granted(policy_type(p), Some("User has required role"))
       ELSE Denied(policy_type(p), "User doesn't have required role")

(* AbacPolicy::new *)
AbacPolicy_new(condition) == [kind |-> "AbacPolicy", condition |-> condition]

(* variant: the two branches are swapped *)
AbacPolicy_evaluate_access_Swapped(p, in) ==
    LET condition_met == in \in p.condition
    IN IF ~condition_met
       THEN Granted(policy_type(p), Some("Condition evaluated to true"))
       ELSE Denied(policy_type(p), "Condition evaluated to false")

(* AbacPolicy::evaluate_access *)
AbacPolicy_evaluate_access(p, in) ==
    LET condition_met == in \in p.condition
    IN IF condition_met
       THEN Granted(policy_type(p), Some("Condition evaluated to true"))
       ELSE Denied(policy_type(p), "Condition evaluated to false")

(* DummyRelationshipResolver::new (tests) *)
DummyRelationshipResolver_new(relationships) ==
    [kind |-> "DummyRelationshipResolver", relationships |-> relationships]

(* DummyRelationshipResolver::has_relationship (tests) *)
has_relationship(resolver, subject, resource, relationship) ==
    <<subject, resource, relationship>> \in resolver.relationships

(* RebacPolicy::new *)
RebacPolicy_new(relationship, resolver) ==
    [kind |-> "RebacPolicy", relationship |-> relationship,
     resolver |-> resolver]

(* format!("Subject has '{}' relationship with resource", relationship) and *)
(* its denied twin, as the pieces around the label and the label            *)
RebacGrantedReason(relationship) ==
    << "Subject has '", relationship, "' relationship with resource" >>
RebacDeniedReason(relationship) ==
    << "Subject does not have '", relationship, "' relationship with resource" >>

(* variant: the answer of the resolver is read the other way round *)
RebacPolicy_evaluate_access_Inverted(p, has) ==
    IF ~has
    THEN Granted(policy_type(p), Some(RebacGrantedReason(p.relationship)))
    ELSE Denied(policy_type(p), RebacDeniedReason(p.relationship))

(* RebacPolicy::evaluate_access, from the resolver's answer on *)
RebacPolicy_evaluate_access(p, has) ==
    IF has
    THEN Granted(policy_type(p), Some(RebacGrantedReason(p.relationship)))
    ELSE Denied(policy_type(p), RebacDeniedReason(p.relationship))

(* Dispatch of evaluate_access on a policy that calls no other policy *)
LeafResult(p, in) ==
    CASE p.kind = "AlwaysAllowPolicy" -> AlwaysAllowPolicy_evaluate_access(p, in)
      [] p.kind = "AlwaysDenyPolicy" -> AlwaysDenyPolicy_evaluate_access(p, in)
      [] p.kind = "CountingPolicy" -> CountingPolicy_evaluate_access(p, in)
      [] p.kind = "FeatureFlagPolicy" -> FeatureFlagPolicy_evaluate_access(p, in)
      [] p.kind = "InternalPolicy" -> InternalPolicy_evaluate_access(p, in)
      [] p.kind = "RbacPolicy" -> RbacPolicy_evaluate_access(p, in)
      [] p.kind = "AbacPolicy" -> AbacPolicy_evaluate_access(p, in)

----------------------------------------------------------------------------
(* The policies the host has at hand *)

(* what the host puts in the vec! it hands to try_new *)
OperandLeaves == { CountingPolicy(TRUE), CountingPolicy(FALSE) }

(* what the host adds to the checker directly *)
CheckerLeaves ==
    { AlwaysAllowPolicy, AlwaysDenyPolicy("DenyPolicy1"),
      AlwaysDenyPolicy("DenyPolicy2"), FeatureFlagPolicy }

(* a combinator all of whose children are leaves *)
IsFlat(p) ==
    CASE p.kind = "NotPolicy" -> ~IsCombinator(p.policy)
      [] p.kind \in {"AndPolicy", "OrPolicy"} ->
            \A i \in 1..Len(p.policies) : ~IsCombinator(p.policies[i])
      [] OTHER -> FALSE

HasBuilt == built # None /\ Unwrap(built).ok
BuiltPolicy == Unwrap(built).policy

(* a combinator the host built can be nested once more *)
Operands ==
    OperandLeaves \cup
        (IF HasBuilt /\ IsFlat(BuiltPolicy) THEN {BuiltPolicy} ELSE {})

AllIdle == \A t \in Tasks : pc[t] = "idle"

----------------------------------------------------------------------------
(* The state after PermissionChecker::new(), nothing built, no call made *)

Init ==
    /\ policies = << >>
    /\ builder = None
    /\ built = None
    /\ pc = [t \in Tasks |-> "idle"]
    /\ input = [t \in Tasks |-> None]
    /\ stack = [t \in Tasks |-> << >>]
    /\ ret = [t \in Tasks |-> None]
    /\ result = [t \in Tasks |-> None]
    /\ calls = [t \in Tasks |-> << >>]
    /\ returns = [t \in Tasks |-> << >>]
    /\ audit = << >>
    /\ evaluation_count = 0
    /\ resolver_calls = [t \in Tasks |-> << >>]
    /\ printed = None

EvalVars == <<pc, input, stack, ret, result, calls, returns, audit,
              evaluation_count, resolver_calls, printed>>

----------------------------------------------------------------------------
(* Set-up: the host's constructor calls.  A constructor's value is kept in *)
(* built as a Result; NotPolicy::new and build cannot fail and give Ok.    *)

(* AndPolicy::try_new(vec![...]) *)
AndTryNew(ps) ==
    /\ AllIdle /\ builder = None /\ policies = << >>
    /\ built' = Some(AndPolicy_try_new(ps))
    /\ UNCHANGED <<printed, policies, builder, EvalVars>>

(* OrPolicy::try_new(vec![...]) *)
OrTryNew(ps) ==
    /\ AllIdle /\ builder = None /\ policies = << >>
    /\ built' = Some(OrPolicy_try_new(ps))
    /\ UNCHANGED <<printed, policies, builder, EvalVars>>

(* NotPolicy::new(policy) *)
NotNew(p) ==
    /\ AllIdle /\ builder = None /\ policies = << >>
    /\ built' = Some(Ok(NotPolicy_new(p)))
    /\ UNCHANGED <<printed, policies, builder, EvalVars>>

(* PolicyBuilder::new(name) *)
BuilderNew(name) ==
    /\ AllIdle /\ builder = None /\ built = None /\ policies = << >>
    /\ builder' = Some(PolicyBuilder_new(name))
    /\ UNCHANGED <<printed, policies, built, EvalVars>>

(* PolicyBuilder::effect *)
BuilderEffect(effect) ==
    /\ AllIdle /\ builder # None
    /\ builder' = Some([Unwrap(builder) EXCEPT !.effect = effect])
    /\ UNCHANGED <<printed, policies, built, EvalVars>>

(* PolicyBuilder::subjects *)
BuilderSubjects(pred) ==
    /\ AllIdle /\ builder # None
    /\ builder' = Some([Unwrap(builder) EXCEPT !.subject_pred = Some(pred)])
    /\ UNCHANGED <<printed, policies, built, EvalVars>>

(* PolicyBuilder::actions *)
BuilderActions(pred) ==
    /\ AllIdle /\ builder # None
    /\ builder' = Some([Unwrap(builder) EXCEPT !.action_pred = Some(pred)])
    /\ UNCHANGED <<printed, policies, built, EvalVars>>

(* PolicyBuilder::resources *)
BuilderResources(pred) ==
    /\ AllIdle /\ builder # None
    /\ builder' = Some([Unwrap(builder) EXCEPT !.resource_pred = Some(pred)])
    /\ UNCHANGED <<printed, policies, built, EvalVars>>

(* PolicyBuilder::context *)
BuilderContext(pred) ==
    /\ AllIdle /\ builder # None
    /\ builder' = Some([Unwrap(builder) EXCEPT !.context_pred = Some(pred)])
    /\ UNCHANGED <<printed, policies, built, EvalVars>>

(* PolicyBuilder::when *)
BuilderWhen(pred) ==
    /\ AllIdle /\ builder # None
    /\ builder' = Some([Unwrap(builder) EXCEPT !.extra_condition = Some(pred)])
    /\ UNCHANGED <<printed, policies, built, EvalVars>>

(* PolicyBuilder::build, which consumes the builder *)
BuilderBuild ==
    /\ AllIdle /\ builder # None
    /\ built' = Some(Ok(PolicyBuilder_build(Unwrap(builder))))
    /\ builder' = None
    /\ UNCHANGED <<printed, policies, EvalVars>>

(* variant: Vec::insert(0, ..) in place of push *)
add_policy_Front(ps, p) == << p >> \o ps

(* PermissionChecker::add_policy *)
add_policy(ps, p) == Append(ps, p)

(* what the host adds: the policy it built, as the checker's only policy, *)
(* or, having built none, leaves                                         *)
Addable ==
    IF HasBuilt
    THEN IF policies = << >> THEN {BuiltPolicy} ELSE {}
    ELSE CheckerLeaves

AddPolicy(p) ==
    /\ AllIdle /\ builder = None
    /\ Len(policies) < MaxPolicies
    /\ p \in Addable
    /\ policies' = add_policy(policies, p)
    /\ UNCHANGED <<builder, built, EvalVars>>

----------------------------------------------------------------------------
(* Evaluation.  A frame is one evaluate_access call in progress: the       *)
(* policy it runs on and the results its loop has pushed so far.           *)

CheckerSelf == [kind |-> PERMISSION_CHECKER_POLICY_TYPE]
Frame(p) == [policy |-> p, results |-> << >>]
Top(t) == stack[t][Len(stack[t])]

(* the path of the innermost call: the child positions from the root down *)
PathOf(stk) == [i \in 1..(Len(stk) - 1) |-> Len(stk[i].results) + 1]
(* the path of the child the innermost call invokes next *)
ChildPath(stk) == [i \in 1..Len(stk) |-> Len(stk[i].results) + 1]

Running(t, kind) ==
    /\ pc[t] = "running"
    /\ stack[t] # << >>
    /\ Top(t).policy.kind = kind

(* variant: the call of the next policy of the list is started with it *)
Invoke_WithNext(t, p) ==
    /\ stack' = [stack EXCEPT ![t] = Append(@, Frame(p))]
    /\ calls' = [calls EXCEPT ![t] =
            IF ChildPath(stack[t]) = << >>
            THEN Append(@, ChildPath(stack[t]))
            ELSE @ \o << ChildPath(stack[t]),
                         [ChildPath(stack[t]) EXCEPT ![Len(stack[t])] = @ + 1] >>]

(* policy.evaluate_access(subject, action, resource, context): the call *)
Invoke(t, p) ==
    /\ stack' = [stack EXCEPT ![t] = Append(@, Frame(p))]
    /\ calls' = [calls EXCEPT ![t] = Append(@, ChildPath(stack[t]))]

(* a policy's evaluate_access returns r to its caller's .await *)
Return(t, r) ==
    /\ returns' = [returns EXCEPT ![t] =
            Append(@, [path |-> PathOf(stack[t]), policy |-> Top(t).policy,
                       result |-> r])]
    /\ IF Len(stack[t]) = 1
       THEN /\ stack' = [stack EXCEPT ![t] = << >>]
            /\ ret' = [ret EXCEPT ![t] = None]
            /\ result' = [result EXCEPT ![t] = Some(r)]
            /\ pc' = [pc EXCEPT ![t] = "done"]
       ELSE /\ stack' = [stack EXCEPT ![t] = SubSeq(@, 1, Len(@) - 1)]
            /\ ret' = [ret EXCEPT ![t] = Some(r)]
            /\ UNCHANGED <<result, pc>>

(* variant: the results pushed so far are kept in the policy itself, so    *)
(* every call in progress on the same policy at the same depth sees them   *)
Continue_SharedResults(t, results) ==
    /\ stack' = [u \in Tasks |->
            IF /\ Len(stack[u]) = Len(stack[t])
               /\ Top(u).policy = Top(t).policy
            THEN [stack[u] EXCEPT ![Len(stack[u])].results = results]
            ELSE stack[u]]
    /\ ret' = [ret EXCEPT ![t] = None]

(* variant: the loop goes round without moving on to its next policy *)
Continue_NoProgress(t, results) ==
    /\ stack' = stack
    /\ ret' = [ret EXCEPT ![t] = None]

(* the loop goes on to its next policy with results pushed *)
Continue(t, results) ==
    /\ stack' = [stack EXCEPT ![t][Len(stack[t])].results = results]
    /\ ret' = [ret EXCEPT ![t] = None]

(* variant: the empty list falls through to the loop and the value after it *)
NoPoliciesEvaluation_FallsThrough ==
    AccessDenied(
        with_root(Combined(PERMISSION_CHECKER_POLICY_TYPE, "Or", << >>, FALSE)),
        "All policies denied access")

(* PermissionChecker::evaluate_access with an empty list *)
NoPoliciesEvaluation ==
    AccessDenied(
        with_root(Denied(PERMISSION_CHECKER_POLICY_TYPE, "No policies configured")),
        "No policies configured")

(* PermissionChecker::evaluate_access: entry, up to the loop *)
StartChecker(t, in) ==
    /\ pc[t] = "idle" /\ builder = None
    /\ input' = [input EXCEPT ![t] = Some(in)]
    /\ IF policies = << >>
       THEN /\ result' = [result EXCEPT ![t] = Some(NoPoliciesEvaluation)]
            /\ pc' = [pc EXCEPT ![t] = "done"]
            /\ UNCHANGED stack
       ELSE /\ stack' = [stack EXCEPT ![t] = << Frame(CheckerSelf) >>]
            /\ pc' = [pc EXCEPT ![t] = "running"]
            /\ UNCHANGED result
    /\ UNCHANGED <<printed, policies, builder, built, ret, calls, returns, audit,
                   evaluation_count, resolver_calls>>

(* the host calls evaluate_access on the policy it built (as the tests do) *)
StartPolicy(t, in) ==
    /\ pc[t] = "idle" /\ builder = None /\ policies = << >>
    /\ HasBuilt
    /\ input' = [input EXCEPT ![t] = Some(in)]
    /\ pc' = [pc EXCEPT ![t] = "running"]
    /\ Invoke(t, BuiltPolicy)
    /\ UNCHANGED <<printed, policies, builder, built, ret, result, returns, audit,
                   evaluation_count, resolver_calls>>

(* variant: event.outcome is computed from the result's variant, so that a *)
(* Combined result counts as a failure                                     *)
AuditEvent_ByVariant(policy, res) ==
    [rule_name |-> policy_type(policy),
     category |-> DEFAULT_SECURITY_RULE_CATEGORY,
     ruleset_name |-> PERMISSION_CHECKER_POLICY_TYPE,
     outcome |-> IF res.tag = "Granted" THEN "success" ELSE "failure",
     policy_type |-> policy_type(policy),
     reason |-> reason_of(res)]

(* the "Security rule evaluated" event of the checker's loop *)
AuditEvent(policy, res) ==
    [rule_name |-> policy_type(policy),
     category |-> DEFAULT_SECURITY_RULE_CATEGORY,
     ruleset_name |-> PERMISSION_CHECKER_POLICY_TYPE,
     outcome |-> IF is_granted(res) THEN "success" ELSE "failure",
     policy_type |-> policy_type(policy),
     reason |-> reason_of(res)]

(* variant: the grant carries the checker's own name and the root's reason *)
CheckerGranted_CheckerLevel(policy, res, policy_results) ==
    AccessGranted(PERMISSION_CHECKER_POLICY_TYPE,
        reason_of(Combined(PERMISSION_CHECKER_POLICY_TYPE, "Or",
                           policy_results, TRUE)),
        with_root(Combined(PERMISSION_CHECKER_POLICY_TYPE, "Or",
                           policy_results, TRUE)))

(* the checker's value when a policy's result passes *)
CheckerGranted(policy, res, policy_results) ==
    AccessGranted(policy_type(policy), reason_of(res),
        with_root(Combined(PERMISSION_CHECKER_POLICY_TYPE, "Or",
                           policy_results, TRUE)))

(* variant: only the last result is kept in the trace *)
CheckerDenied_LastOnly(policy_results) ==
    AccessDenied(
        with_root(Combined(PERMISSION_CHECKER_POLICY_TYPE, "Or",
                           << policy_results[Len(policy_results)] >>, FALSE)),
        "All policies denied access")

(* the checker's value after the loop *)
CheckerDenied(policy_results) ==
    AccessDenied(
        with_root(Combined(PERMISSION_CHECKER_POLICY_TYPE, "Or",
                           policy_results, FALSE)),
        "All policies denied access")

(* variant: the checker never returns from inside its loop *)
CheckerShortCircuits_Never(res) == FALSE

(* variant: the checker returns on a Granted result only, not on a         *)
(* combinator's result that granted                                        *)
CheckerShortCircuits_GrantedOnly(res) == res.tag = "Granted"

(* the checker returns on this result *)
CheckerShortCircuits(res) == is_granted(res)

(* for policy in &self.policies { policy.evaluate_access(..) *)
CheckerCall(t) ==
    /\ Running(t, PERMISSION_CHECKER_POLICY_TYPE)
    /\ ret[t] = None
    /\ Invoke(t, policies[Len(Top(t).results) + 1])
    /\ UNCHANGED <<printed, policies, builder, built, pc, input, ret, result, returns,
                   audit, evaluation_count, resolver_calls>>

(* .await; the rest of the loop body, and what follows the loop *)
CheckerResume(t) ==
    /\ Running(t, PERMISSION_CHECKER_POLICY_TYPE)
    /\ ret[t] # None
    /\ LET res == Unwrap(ret[t])
           policy == policies[Len(Top(t).results) + 1]
           policy_results == Append(Top(t).results, res)
           finish(v) ==
               /\ result' = [result EXCEPT ![t] = Some(v)]
               /\ pc' = [pc EXCEPT ![t] = "done"]
               /\ stack' = [stack EXCEPT ![t] = << >>]
               /\ ret' = [ret EXCEPT ![t] = None]
       IN /\ audit' = Append(audit, AuditEvent(policy, res))
          /\ IF CheckerShortCircuits(res)
             THEN finish(CheckerGranted(policy, res, policy_results))
             ELSE IF Len(policy_results) = Len(policies)
                  THEN finish(CheckerDenied(policy_results))
                  ELSE /\ Continue(t, policy_results)
                       /\ UNCHANGED <<result, pc>>
    /\ UNCHANGED <<printed, policies, builder, built, input, calls, returns,
                   evaluation_count, resolver_calls>>

----------------------------------------------------------------------------
(* The combinators' evaluate_access *)

(* variant: AndPolicy never returns from inside its loop *)
AndShortCircuits_Never(res) == FALSE
(* variant: OrPolicy returns on a denial, as AndPolicy does *)
OrShortCircuits_OnDenial(res) == ~is_granted(res)
(* variant: OrPolicy never returns from inside its loop *)
OrShortCircuits_Never(res) == FALSE

(* variant: AND returns on a Denied result only, not on a combinator's     *)
(* result that did not grant                                               *)
AndShortCircuits_DeniedOnly(res) == res.tag = "Denied"

(* variant: AND returns on the first grant, as OR does *)
AndShortCircuits_OnGrant(res) == is_granted(res)

(* AndPolicy returns on this result: short-circuit on first denial *)
AndShortCircuits(res) == ~is_granted(res)
(* OrPolicy returns on this result: short-circuit on first success *)
OrShortCircuits(res) == is_granted(res)

(* variant: AndPolicy stores the outcome of its first child *)
AndCombined_FirstChild(p, children_results, outcome) ==
    Combined(policy_type(p), "And", children_results,
             is_granted(children_results[1]))

(* AndPolicy's value: inside the loop (outcome false), after it (true) *)
AndCombined(p, children_results, outcome) ==
    Combined(policy_type(p), "And", children_results, outcome)
(* variant: OrPolicy stores the outcome of its first child *)
OrCombined_FirstChild(p, children_results, outcome) ==
    Combined(policy_type(p), "Or", children_results,
             is_granted(children_results[1]))

(* OrPolicy's value: inside the loop (outcome true), after it (false) *)
OrCombined(p, children_results, outcome) ==
    Combined(policy_type(p), "Or", children_results, outcome)
(* variant: NotPolicy passes the inner outcome on *)
NotCombined_NotNegated(p, inner_result) ==
    Combined(policy_type(p), "Not", << inner_result >>, is_granted(inner_result))

(* NotPolicy's value *)
NotCombined(p, inner_result) ==
    Combined(policy_type(p), "Not", << inner_result >>, ~is_granted(inner_result))

(* AndPolicy: for policy in &self.policies { policy.evaluate_access(..);   *)
(* a loop over no policy falls through to the value after it               *)
AndCall(t) ==
    /\ Running(t, "AndPolicy")
    /\ ret[t] = None
    /\ IF Top(t).policy.policies = << >>
       THEN /\ Return(t, AndCombined(Top(t).policy, << >>, TRUE))
            /\ UNCHANGED calls
       ELSE /\ Invoke(t, Top(t).policy.policies[Len(Top(t).results) + 1])
            /\ UNCHANGED <<pc, ret, result, returns>>
    /\ UNCHANGED <<printed, policies, builder, built, input, audit, evaluation_count, resolver_calls>>

(* AndPolicy: .await, the rest of the loop body, and what follows the loop *)
AndResume(t) ==
    /\ Running(t, "AndPolicy")
    /\ ret[t] # None
    /\ LET res == Unwrap(ret[t])
           self == Top(t).policy
           children_results == Append(Top(t).results, res)
       IN IF AndShortCircuits(res)
          THEN /\ Return(t, AndCombined(self, children_results, FALSE))
               /\ UNCHANGED calls
          ELSE IF Len(children_results) = Len(self.policies)
               THEN /\ Return(t, AndCombined(self, children_results, TRUE))
                    /\ UNCHANGED calls
               ELSE /\ Continue(t, children_results)
                    /\ UNCHANGED <<result, pc, returns, calls>>
    /\ UNCHANGED <<printed, policies, builder, built, input, audit, evaluation_count, resolver_calls>>

(* OrPolicy: for policy in &self.policies { policy.evaluate_access(..);    *)
(* a loop over no policy falls through to the value after it               *)
OrCall(t) ==
    /\ Running(t, "OrPolicy")
    /\ ret[t] = None
    /\ IF Top(t).policy.policies = << >>
       THEN /\ Return(t, OrCombined(Top(t).policy, << >>, FALSE))
            /\ UNCHANGED calls
       ELSE /\ Invoke(t, Top(t).policy.policies[Len(Top(t).results) + 1])
            /\ UNCHANGED <<pc, ret, result, returns>>
    /\ UNCHANGED <<printed, policies, builder, built, input, audit, evaluation_count, resolver_calls>>

(* OrPolicy: .await, the rest of the loop body, and what follows the loop *)
OrResume(t) ==
    /\ Running(t, "OrPolicy")
    /\ ret[t] # None
    /\ LET res == Unwrap(ret[t])
           self == Top(t).policy
           children_results == Append(Top(t).results, res)
       IN IF OrShortCircuits(res)
          THEN /\ Return(t, OrCombined(self, children_results, TRUE))
               /\ UNCHANGED calls
          ELSE IF Len(children_results) = Len(self.policies)
               THEN /\ Return(t, OrCombined(self, children_results, FALSE))
                    /\ UNCHANGED calls
               ELSE /\ Continue(t, children_results)
                    /\ UNCHANGED <<result, pc, returns, calls>>
    /\ UNCHANGED <<printed, policies, builder, built, input, audit, evaluation_count, resolver_calls>>

(* NotPolicy: self.policy.evaluate_access(..) *)
NotCall(t) ==
    /\ Running(t, "NotPolicy")
    /\ ret[t] = None
    /\ Invoke(t, Top(t).policy.policy)
    /\ UNCHANGED <<printed, policies, builder, built, pc, input, ret, result, returns,
                   audit, evaluation_count, resolver_calls>>

(* NotPolicy: .await and the value built from the inner result *)
NotResume(t) ==
    /\ Running(t, "NotPolicy")
    /\ ret[t] # None
    /\ Return(t, NotCombined(Top(t).policy, Unwrap(ret[t])))
    /\ UNCHANGED <<printed, policies, builder, built, input, calls, audit,
                   evaluation_count, resolver_calls>>

----------------------------------------------------------------------------
(* The policies that call no other policy *)

(* AlwaysAllowPolicy, AlwaysDenyPolicy, FeatureFlagPolicy, InternalPolicy, *)
(* RbacPolicy, AbacPolicy: evaluate_access                                 *)
LeafEval(t) ==
    /\ pc[t] = "running" /\ stack[t] # << >>
    /\ Top(t).policy.kind \in
           {"AlwaysAllowPolicy", "AlwaysDenyPolicy", "FeatureFlagPolicy",
            "InternalPolicy", "RbacPolicy", "AbacPolicy"}
    /\ Return(t, LeafResult(Top(t).policy, Unwrap(input[t])))
    /\ UNCHANGED <<printed, policies, builder, built, input, calls, audit,
                   evaluation_count, resolver_calls>>

(* CountingPolicy::evaluate_access: counter.fetch_add(1), then the result *)
CountingEval(t) ==
    /\ Running(t, "CountingPolicy")
    /\ evaluation_count' = evaluation_count + 1
    /\ Return(t, LeafResult(Top(t).policy, Unwrap(input[t])))
    /\ UNCHANGED <<printed, policies, builder, built, input, calls, audit, resolver_calls>>

(* RebacPolicy: self.resolver.has_relationship(subject, resource,           *)
(* &self.relationship)                                                     *)
RebacCall(t) ==
    /\ Running(t, "RebacPolicy")
    /\ ret[t] = None
    /\ resolver_calls' = [resolver_calls EXCEPT ![t] =
            Append(@, [subject |-> Unwrap(input[t]).subject,
                       resource |-> Unwrap(input[t]).resource,
                       relationship |-> Top(t).policy.relationship])]
    /\ ret' = [ret EXCEPT ![t] =
            Some([answer |->
                     has_relationship(Top(t).policy.resolver,
                                      Unwrap(input[t]).subject,
                                      Unwrap(input[t]).resource,
                                      Top(t).policy.relationship)])]
    /\ UNCHANGED <<printed, policies, builder, built, pc, input, stack, result, calls,
                   returns, audit, evaluation_count>>

(* RebacPolicy: .await and the value built from the resolver's answer *)
RebacResume(t) ==
    /\ Running(t, "RebacPolicy")
    /\ ret[t] # None
    /\ Return(t, RebacPolicy_evaluate_access(Top(t).policy,
                                              Unwrap(ret[t]).answer))
    /\ UNCHANGED <<printed, policies, builder, built, input, calls, audit,
                   evaluation_count, resolver_calls>>

----------------------------------------------------------------------------
(* The host's set-up steps *)
Setup ==
    \/ \E ps \in SeqsOf(Operands, 0, MaxChildren) : AndTryNew(ps)
    \/ \E ps \in SeqsOf(Operands, 0, MaxChildren) : OrTryNew(ps)
    \/ \E p \in Operands : NotNew(p)
    \/ \E name \in BuilderNames : BuilderNew(name)
    \/ \E effect \in {Allow, Deny} : BuilderEffect(effect)
    \/ \E pred \in SubjectPreds : BuilderSubjects(pred)
    \/ \E pred \in ActionPreds : BuilderActions(pred)
    \/ \E pred \in ResourcePreds : BuilderResources(pred)
    \/ \E pred \in ContextPreds : BuilderContext(pred)
    \/ \E pred \in ExtraConditions : BuilderWhen(pred)
    \/ BuilderBuild
    \/ \E p \in Addable : AddPolicy(p)

(* One step of task t's evaluation *)
Step(t) ==
    \/ \E in \in Inputs : StartChecker(t, in)
    \/ \E in \in Inputs : StartPolicy(t, in)
    \/ CheckerCall(t)
    \/ CheckerResume(t)
    \/ AndCall(t)
    \/ AndResume(t)
    \/ OrCall(t)
    \/ OrResume(t)
    \/ NotCall(t)
    \/ NotResume(t)
    \/ LeafEval(t)
    \/ CountingEval(t)

(* One host, one evaluation *)
Next == Setup \/ Step("t1")

Spec == Init /\ [][Next]_vars

----------------------------------------------------------------------------
(* A host of the built-in policies: roles, ownership, relationships, as in *)
(* the examples, with resolvers that answer and resolvers that have        *)
(* nothing to answer with (the database is down).                          *)

(* |doc, action| roles required: doc1 needs A or B to read, B to write *)
RequiredRoles ==
    [ra \in Resources \X Actions |->
        IF ra[1] = "doc1"
        THEN (IF ra[2] = "read" THEN << "A", "B" >> ELSE << "B" >>)
        ELSE << >>]
(* |user| roles held *)
UserRoles == [s \in Subjects |-> IF s = "Alice" THEN << "A" >> ELSE << "C" >>]
NoRoles == [s \in Subjects |-> << >>]

OwnerCondition == {in \in Inputs : Owner[in.resource] = in.subject}
NeverCondition == {}

OwnerRelationships ==
    {<<"Alice", "doc1", "owner">>, <<"Bob", "doc2", "owner">>,
     <<"Bob", "doc1", "manager">>}
NoRelationships == {}

(* the built-in policies over resolvers that answer *)
AnsweringPolicies ==
    { RbacPolicy_new(RequiredRoles, UserRoles),
      AbacPolicy_new(OwnerCondition),
      RebacPolicy_new("owner", DummyRelationshipResolver_new(OwnerRelationships)),
      PolicyBuilder_build(
          [PolicyBuilder_new("SubjectPolicy") EXCEPT
              !.subject_pred = Some({"Alice"})]),
      PolicyBuilder_build(PolicyBuilder_new("AllowAll")) }

(* the same policies over resolvers and predicates that return false, and  *)
(* role resolvers that return no roles                                     *)
FailingPolicies ==
    { RbacPolicy_new(RequiredRoles, NoRoles),
      AbacPolicy_new(NeverCondition),
      RebacPolicy_new("owner", DummyRelationshipResolver_new(NoRelationships)),
      PolicyBuilder_build(
          [PolicyBuilder_new("SubjectPolicy") EXCEPT !.subject_pred = Some({})]) }

(* builder policies with effect Deny: one for Alice, one for everybody *)
DenyPolicies ==
    { PolicyBuilder_build(
          [PolicyBuilder_new("DenyAlice") EXCEPT
              !.effect = Deny, !.subject_pred = Some({"Alice"})]),
      PolicyBuilder_build(
          [PolicyBuilder_new("DenyAll") EXCEPT !.effect = Deny]) }

(* combinators over them *)
CombinedPolicies ==
    { NotPolicy_new(AbacPolicy_new(NeverCondition)),
      AndPolicy_try_new(<< RbacPolicy_new(RequiredRoles, UserRoles),
            RebacPolicy_new("owner",
                DummyRelationshipResolver_new(OwnerRelationships)) >>).policy,
      OrPolicy_try_new(<< AbacPolicy_new(NeverCondition),
            RebacPolicy_new("owner",
                DummyRelationshipResolver_new(NoRelationships)) >>).policy }

AccessPolicies ==
    AnsweringPolicies \cup FailingPolicies \cup DenyPolicies
        \cup CombinedPolicies

(* checker.add_policy(policy) *)
AddAccessPolicy(p) ==
    /\ AllIdle /\ builder = None
    /\ Len(policies) < MaxAccessPolicies
    /\ policies' = add_policy(policies, p)
    /\ UNCHANGED <<builder, built, EvalVars>>

(* One step of task t's evaluation of the checker *)
StepAccess(t) ==
    \/ \E in \in Inputs : StartChecker(t, in)
    \/ CheckerCall(t)
    \/ CheckerResume(t)
    \/ AndCall(t)
    \/ AndResume(t)
    \/ OrCall(t)
    \/ OrResume(t)
    \/ NotCall(t)
    \/ NotResume(t)
    \/ LeafEval(t)
    \/ RebacCall(t)
    \/ RebacResume(t)

NextAccess == (\E p \in AccessPolicies : AddAccessPolicy(p)) \/ StepAccess("t1")

SpecAccess == Init /\ [][NextAccess]_vars

----------------------------------------------------------------------------
(* What the properties below are stated with *)

T1 == "t1"
Done(t) == pc[t] = "done"
Out(t) == Unwrap(result[t])
In(t) == Unwrap(input[t])

(* the evaluation of task t is one of a policy, not of the checker *)
RootIsPolicy(t) == calls[t] # << >> /\ calls[t][1] = << >>
CheckerEval(t) == pc[t] # "idle" /\ ~RootIsPolicy(t)
PolicyEval(t) == pc[t] # "idle" /\ RootIsPolicy(t)

(* the boolean formula a policy stands for, on an input *)
RECURSIVE Grants(_, _)
Grants(p, in) ==
    CASE p.kind = "AndPolicy" ->
            \A i \in 1..Len(p.policies) : Grants(p.policies[i], in)
      [] p.kind = "OrPolicy" ->
            \E i \in 1..Len(p.policies) : Grants(p.policies[i], in)
      [] p.kind = "NotPolicy" -> ~Grants(p.policy, in)
      [] p.kind = "RebacPolicy" ->
            has_relationship(p.resolver, in.subject, in.resource, p.relationship)
      [] OTHER -> LeafResult(p, in).tag = "Granted"

(* the first position of ps whose policy grants (does not grant); 0: none *)
FirstGranting(ps, in) ==
    IF \E i \in 1..Len(ps) : Grants(ps[i], in)
    THEN CHOOSE i \in 1..Len(ps) :
            Grants(ps[i], in) /\ \A j \in 1..(i - 1) : ~Grants(ps[j], in)
    ELSE 0
FirstDenying(ps, in) ==
    IF \E i \in 1..Len(ps) : ~Grants(ps[i], in)
    THEN CHOOSE i \in 1..Len(ps) :
            ~Grants(ps[i], in) /\ \A j \in 1..(i - 1) : Grants(ps[j], in)
    ELSE 0

(* the calls made and finished, by path *)
NumCalls(t, path) ==
    Cardinality({k \in 1..Len(calls[t]) : calls[t][k] = path})
ReturnsAt(t, path) ==
    {k \in 1..Len(returns[t]) : returns[t][k].path = path}
ResultAt(t, path) ==
    returns[t][CHOOSE k \in ReturnsAt(t, path) : TRUE].result
(* the calls the root of the evaluation made itself, in order *)
TopCalls(t) == SelectSeq(calls[t], LAMBDA c : Len(c) = 1)
Count(n) == [k \in 1..n |-> << k >>]

----------------------------------------------------------------------------
(* the finished calls of task t on policies of one kind *)
ReturnsOf(t, kind) ==
    {k \in 1..Len(returns[t]) : returns[t][k].policy.kind = kind}

(* the policy a path leads to from the root of task t's evaluation *)
ChildOf(p, k) == IF p.kind = "NotPolicy" THEN p.policy ELSE p.policies[k]
RECURSIVE Descend(_, _)
Descend(p, path) ==
    IF path = << >> THEN p ELSE Descend(ChildOf(p, Head(path)), Tail(path))
PolicyAt(t, path) ==
    IF RootIsPolicy(t)
    THEN Descend(BuiltPolicy, path)
    ELSE Descend(policies[Head(path)], Tail(path))
Front(path) == SubSeq(path, 1, Len(path) - 1)
Last(path) == path[Len(path)]

(* C1: on a checker with no policy, evaluate_access returns Denied with    *)
(* reason "No policies configured" whatever the input, the root of its     *)
(* trace is a Denied leaf of policy type "PermissionChecker" with that     *)
(* reason, not a Combined node, and no policy is invoked.                  *)
C1_NoPoliciesDenied ==
    \A t \in Tasks :
        (Done(t) /\ CheckerEval(t) /\ policies = << >>) =>
            /\ Out(t).tag = "Denied"
            /\ Out(t).reason = "No policies configured"
            /\ Out(t).trace.root # None
            /\ Unwrap(Out(t).trace.root).tag = "Denied"
            /\ Unwrap(Out(t).trace.root) =
                   [tag |-> "Denied", policy_type |-> "PermissionChecker",
                    reason |-> "No policies configured"]
            /\ calls[t] = << >> /\ audit = << >>

C1_Witness ==
    /\ Done(T1) /\ CheckerEval(T1) /\ policies = << >>
    /\ In(T1) = [subject |-> "Bob", action |-> "write", resource |-> "doc2",
                 context |-> "disabled"]

----------------------------------------------------------------------------
(* C2: when some policy of a non-empty list grants, the checker returns    *)
(* Granted, its policy_type is the name of the first policy in insertion   *)
(* order that grants and its reason is the reason of that policy's result. *)
C2_FirstGrantingPolicyNamed ==
    \A t \in Tasks :
        (/\ Done(t) /\ CheckerEval(t) /\ policies # << >>
         /\ FirstGranting(policies, In(t)) # 0) =>
            LET i == FirstGranting(policies, In(t))
            IN /\ Out(t).tag = "Granted"
               /\ Out(t).policy_type = policy_type(policies[i])
               /\ ReturnsAt(t, << i >>) # {}
               /\ Out(t).reason = reason_of(ResultAt(t, << i >>))
               /\ ~IsCombinator(policies[i]) =>
                      Out(t).reason = reason_of(LeafResult(policies[i], In(t)))

(* [Deny, Deny, Allow]: the name is that of the third policy *)
C2_Witness ==
    /\ Done(T1) /\ CheckerEval(T1)
    /\ policies = << AlwaysDenyPolicy("DenyPolicy1"),
                     AlwaysDenyPolicy("DenyPolicy2"), AlwaysAllowPolicy >>
    /\ Out(T1).tag = "Granted"
    /\ Out(T1).policy_type = "AlwaysAllowPolicy"
    /\ Out(T1).reason = Some("Always allow policy")

(* C3: the checker short-circuits on the first grant: no policy after the  *)
(* first granting one (position i) is ever invoked, and the trace root is  *)
(* Combined OR with outcome true and exactly i children in evaluation      *)
(* order, the last one granting and the ones before it not.                *)
C3_ShortCircuitOnFirstGrant ==
    \A t \in Tasks :
        (CheckerEval(t) /\ FirstGranting(policies, In(t)) # 0) =>
            LET i == FirstGranting(policies, In(t))
            IN /\ \A k \in 1..Len(calls[t]) : calls[t][k][1] <= i
               /\ Done(t) =>
                    LET root == Unwrap(Out(t).trace.root)
                    IN /\ TopCalls(t) = Count(i)
                       /\ root.tag = "Combined"
                       /\ root.operation = "Or"
                       /\ root.outcome = TRUE
                       /\ Len(root.children) = i
                       /\ \A k \in 1..i :
                            /\ root.children[k] = ResultAt(t, << k >>)
                            /\ is_granted(root.children[k]) <=> (k = i)

(* a grant at position 2 of 3: the third policy was skipped *)
C3_Witness ==
    /\ Done(T1) /\ CheckerEval(T1)
    /\ Len(policies) = 3
    /\ FirstGranting(policies, In(T1)) = 2
    /\ Grants(policies[3], In(T1))
    /\ Len(Unwrap(Out(T1).trace.root).children) = 2

(* C4: when no policy of a non-empty list grants, the checker invokes      *)
(* every policy exactly once in insertion order and returns Denied with    *)
(* reason "All policies denied access"; the trace root is Combined OR with *)
(* outcome false and its children are the policies' results in order.      *)
C4_AllDenied ==
    \A t \in Tasks :
        (/\ Done(t) /\ CheckerEval(t) /\ policies # << >>
         /\ FirstGranting(policies, In(t)) = 0) =>
            LET root == Unwrap(Out(t).trace.root)
                n == Len(policies)
            IN /\ TopCalls(t) = Count(n)
               /\ Out(t).tag = "Denied"
               /\ Out(t).reason = "All policies denied access"
               /\ root.tag = "Combined"
               /\ root.operation = "Or"
               /\ root.outcome = FALSE
               /\ Len(root.children) = n
               /\ \A k \in 1..n :
                    /\ NumCalls(t, << k >>) = 1
                    /\ Cardinality(ReturnsAt(t, << k >>)) = 1
                    /\ returns[t][CHOOSE j \in ReturnsAt(t, << k >>) : TRUE].policy
                           = policies[k]
                    /\ root.children[k] = ResultAt(t, << k >>)
                    /\ ~is_granted(root.children[k])
                    /\ ~IsCombinator(policies[k]) =>
                           root.children[k] = LeafResult(policies[k], In(t))

C4_Witness ==
    /\ Done(T1) /\ CheckerEval(T1)
    /\ policies = << AlwaysDenyPolicy("DenyPolicy1"), FeatureFlagPolicy,
                     AlwaysDenyPolicy("DenyPolicy2") >>
    /\ Out(T1).tag = "Denied"
    /\ Unwrap(Out(T1).trace.root).children =
          << Denied("AlwaysDenyPolicy", "DenyPolicy1"),
             Denied("FeatureFlagPolicy", "Feature flag disabled"),
             Denied("AlwaysDenyPolicy", "DenyPolicy2") >>

----------------------------------------------------------------------------
(* C5: AndPolicy::evaluate_access returns Combined AND whose outcome is    *)
(* true iff every child policy grants; its children are the results of the *)
(* policies up to and including the first that does not grant (of all, if  *)
(* all grant), in list order.                                              *)
C5_AndPolicyResult ==
    \A t \in Tasks : \A e \in ReturnsOf(t, "AndPolicy") :
        LET ps == returns[t][e].policy.policies
            path == returns[t][e].path
            res == returns[t][e].result
            d == FirstDenying(ps, In(t))
        IN /\ ps # << >>
           /\ res.tag = "Combined"
           /\ res.operation = "And"
           /\ res.outcome <=> \A i \in 1..Len(ps) : Grants(ps[i], In(t))
           /\ Len(res.children) = IF d = 0 THEN Len(ps) ELSE d
           /\ \A k \in 1..Len(res.children) :
                /\ ReturnsAt(t, path \o << k >>) # {}
                /\ res.children[k] = ResultAt(t, path \o << k >>)
                /\ is_granted(res.children[k]) <=> Grants(ps[k], In(t))

(* AND(deny, allow) evaluated: one child, outcome false *)
C5_Witness ==
    /\ Done(T1) /\ PolicyEval(T1)
    /\ BuiltPolicy.kind = "AndPolicy"
    /\ Len(BuiltPolicy.policies) = 2
    /\ FirstDenying(BuiltPolicy.policies, In(T1)) = 1
    /\ Grants(BuiltPolicy.policies[2], In(T1))
    /\ Len(Out(T1).children) = 1
    /\ Out(T1).outcome = FALSE

(* C6: OrPolicy::evaluate_access returns Combined OR whose outcome is true *)
(* iff some child policy grants; its children are the results of the       *)
(* policies up to and including the first that grants (of all, if none     *)
(* grants), in list order.                                                 *)
C6_OrPolicyResult ==
    \A t \in Tasks : \A e \in ReturnsOf(t, "OrPolicy") :
        LET ps == returns[t][e].policy.policies
            path == returns[t][e].path
            res == returns[t][e].result
            g == FirstGranting(ps, In(t))
        IN /\ ps # << >>
           /\ res.tag = "Combined"
           /\ res.operation = "Or"
           /\ res.outcome <=> \E i \in 1..Len(ps) : Grants(ps[i], In(t))
           /\ Len(res.children) = IF g = 0 THEN Len(ps) ELSE g
           /\ \A k \in 1..Len(res.children) :
                /\ ReturnsAt(t, path \o << k >>) # {}
                /\ res.children[k] = ResultAt(t, path \o << k >>)
                /\ is_granted(res.children[k]) <=> Grants(ps[k], In(t))

(* OR(deny, deny) evaluated: two children, outcome false *)
C6_Witness ==
    /\ Done(T1) /\ PolicyEval(T1)
    /\ BuiltPolicy.kind = "OrPolicy"
    /\ Len(BuiltPolicy.policies) = 2
    /\ FirstGranting(BuiltPolicy.policies, In(T1)) = 0
    /\ Len(Out(T1).children) = 2
    /\ Out(T1).outcome = FALSE

----------------------------------------------------------------------------
(* C7: short-circuit shows in the invocations: in one AndPolicy evaluation *)
(* no child after the first that does not grant is ever invoked, in one    *)
(* OrPolicy evaluation none after the first that grants; when the          *)
(* combinator returns, each child up to that one was invoked exactly once, *)
(* and the counter shared by CountingPolicy children equals the length of  *)
(* the children list.                                                      *)
C7_ShortCircuitSideEffects ==
    \A t \in Tasks :
        /\ \A k \in 1..Len(calls[t]) :
             LET c == calls[t][k]
             IN /\ NumCalls(t, c) = 1
                /\ (c # << >> /\ (RootIsPolicy(t) \/ Len(c) > 1)) =>
                     LET parent == PolicyAt(t, Front(c))
                         d == FirstDenying(parent.policies, In(t))
                         g == FirstGranting(parent.policies, In(t))
                     IN /\ (parent.kind = "AndPolicy" /\ d # 0) => Last(c) <= d
                        /\ (parent.kind = "OrPolicy" /\ g # 0) => Last(c) <= g
        /\ \A e \in ReturnsOf(t, "AndPolicy") \cup ReturnsOf(t, "OrPolicy") :
             LET ps == returns[t][e].policy.policies
                 path == returns[t][e].path
                 n == Len(returns[t][e].result.children)
             IN \A k \in 1..Len(ps) :
                    NumCalls(t, path \o << k >>) = IF k <= n THEN 1 ELSE 0
        /\ (/\ Done(t) /\ PolicyEval(t)
            /\ BuiltPolicy.kind \in {"AndPolicy", "OrPolicy"}
            /\ \A i \in 1..Len(BuiltPolicy.policies) :
                   BuiltPolicy.policies[i].kind = "CountingPolicy") =>
                evaluation_count = Len(Out(t).children)

(* AND(deny, allow) and the counter at 1: the second child never ran *)
C7_Witness ==
    /\ Done(T1) /\ PolicyEval(T1)
    /\ BuiltPolicy = [kind |-> "AndPolicy",
                      policies |-> << CountingPolicy(FALSE), CountingPolicy(TRUE) >>]
    /\ evaluation_count = 1
    /\ NumCalls(T1, << 2 >>) = 0

(* C8: NotPolicy::evaluate_access invokes its inner policy exactly once    *)
(* and returns Combined NOT whose only child is the inner result and whose *)
(* outcome is the negation of that result's; NotPolicy::new always gives a *)
(* NotPolicy, never an error.                                              *)
C8_NotState ==
    \A t \in Tasks : \A e \in ReturnsOf(t, "NotPolicy") :
        LET inner == returns[t][e].policy.policy
            path == returns[t][e].path
            res == returns[t][e].result
        IN /\ NumCalls(t, path \o << 1 >>) = 1
           /\ Cardinality(ReturnsAt(t, path \o << 1 >>)) = 1
           /\ res.tag = "Combined"
           /\ res.operation = "Not"
           /\ res.children = << ResultAt(t, path \o << 1 >>) >>
           /\ res.outcome = ~is_granted(res.children[1])
           /\ res.outcome = ~Grants(inner, In(t))
C8_NotNewStep ==
    \A p \in Operands :
        NotNew(p) => /\ HasBuilt'
                     /\ BuiltPolicy'.kind = "NotPolicy"
                     /\ BuiltPolicy'.policy = p
C8_NotPolicy == []C8_NotState /\ [][C8_NotNewStep]_vars

(* NOT(allow) evaluated: denied, one child *)
C8_Witness ==
    /\ Done(T1) /\ PolicyEval(T1)
    /\ BuiltPolicy.kind = "NotPolicy"
    /\ Grants(BuiltPolicy.policy, In(T1))
    /\ Out(T1).outcome = FALSE
    /\ Len(Out(T1).children) = 1

----------------------------------------------------------------------------
(* every AndPolicy and OrPolicy in p, p included, has a child *)
RECURSIVE NoEmptyCombinator(_)
NoEmptyCombinator(p) ==
    CASE p.kind \in {"AndPolicy", "OrPolicy"} ->
            /\ p.policies # << >>
            /\ \A i \in 1..Len(p.policies) : NoEmptyCombinator(p.policies[i])
      [] p.kind = "NotPolicy" -> NoEmptyCombinator(p.policy)
      [] OTHER -> TRUE

(* C9: AndPolicy::try_new and OrPolicy::try_new give the                   *)
(* EmptyPoliciesError on an empty list and Ok on every other list; no      *)
(* AndPolicy or OrPolicy without children exists anywhere, and no          *)
(* combinator returns a Combined AND/OR with no children.                  *)
C9_NoEmptyState ==
    /\ HasBuilt => NoEmptyCombinator(BuiltPolicy)
    /\ \A i \in 1..Len(policies) : NoEmptyCombinator(policies[i])
    /\ \A t \in Tasks :
        /\ \A i \in 1..Len(stack[t]) :
               stack[t][i].policy = CheckerSelf
                   \/ NoEmptyCombinator(stack[t][i].policy)
        /\ \A e \in ReturnsOf(t, "AndPolicy") \cup ReturnsOf(t, "OrPolicy") :
               /\ returns[t][e].policy.policies # << >>
               /\ returns[t][e].result.tag = "Combined"
               /\ returns[t][e].result.children # << >>
C9_TryNewStep ==
    \A ps \in SeqsOf(Operands, 0, MaxChildren) :
        /\ AndTryNew(ps) =>
              IF ps = << >>
              THEN built' = Some(Err("AndPolicy must have at least one policy"))
              ELSE built' = Some(Ok([kind |-> "AndPolicy", policies |-> ps]))
        /\ OrTryNew(ps) =>
              IF ps = << >>
              THEN built' = Some(Err("OrPolicy must have at least one policy"))
              ELSE built' = Some(Ok([kind |-> "OrPolicy", policies |-> ps]))
C9_EmptyPoliciesError == []C9_NoEmptyState /\ [][C9_TryNewStep]_vars

(* try_new(vec![]) has returned its error *)
C9_Witness ==
    /\ built # None
    /\ ~Unwrap(built).ok
    /\ Unwrap(built).err = "AndPolicy must have at least one policy"

(* a policy built from a builder on which only effect was called, if that *)
NoPredicates(name, effect) ==
    PolicyBuilder_build([PolicyBuilder_new(name) EXCEPT !.effect = effect])

(* the same, and the policy built straight after new, for every name *)
BuiltWithNoPredicates ==
    [name \in BuilderNames |->
        [effect \in {Allow, Deny} |-> NoPredicates(name, effect)]]
BuiltByDefault ==
    [name \in BuilderNames |-> PolicyBuilder_build(PolicyBuilder_new(name))]

(* C10 as amended: a policy built with no predicate set grants on every    *)
(* input when its effect is Allow, the default, and with effect Deny it    *)
(* denies every input with reason "Policy denied access".                  *)
C10_NoPredicates ==
    \A name \in BuilderNames :
      LET allowing == BuiltWithNoPredicates[name][Allow]
          denying == BuiltWithNoPredicates[name][Deny]
      IN
        /\ allowing = BuiltByDefault[name]
        /\ \A t \in Tasks : \A e \in 1..Len(returns[t]) :
            LET p == returns[t][e].policy
                res == returns[t][e].result
            IN /\ p = allowing =>
                    /\ is_granted(res)
                    /\ res = Granted(name, Some("Policy allowed access"))
               /\ p = denying =>
                    res = Denied(name, "Policy denied access")

(* a Deny policy without predicates has been evaluated and has denied *)
C10_Witness ==
    /\ Done(T1) /\ PolicyEval(T1)
    /\ BuiltPolicy = NoPredicates("BuiltPolicy", Deny)
    /\ ~is_granted(Out(T1))
    /\ reason_of(Out(T1)) = Some("Policy denied access")

(* C10 as stated: the Deny reason is "policy denied access" *)
C10_AsStated ==
    \A name \in BuilderNames : \A t \in Tasks : \A e \in 1..Len(returns[t]) :
        LET p == returns[t][e].policy
            res == returns[t][e].result
        IN /\ p = NoPredicates(name, Allow) => is_granted(res)
           /\ p = NoPredicates(name, Deny) =>
                res = Denied(name, "policy denied access")

----------------------------------------------------------------------------
(* C11 as amended: when the predicate of a built policy is false on the    *)
(* input, the policy returns Denied with reason "Policy predicate did not  *)
(* match", with effect Allow and with effect Deny alike.                   *)
C11_PredicateDidNotMatch ==
    \A t \in Tasks : \A e \in ReturnsOf(t, "InternalPolicy") :
        LET p == returns[t][e].policy
            res == returns[t][e].result
        IN In(t) \notin p.predicate =>
              /\ p.effect \in {Allow, Deny}
              /\ res = Denied(p.name, "Policy predicate did not match")

(* a Deny policy for Alice only, evaluated for Bob *)
C11_Witness ==
    /\ Done(T1) /\ PolicyEval(T1)
    /\ BuiltPolicy.kind = "InternalPolicy"
    /\ BuiltPolicy.effect = Deny
    /\ In(T1) \notin BuiltPolicy.predicate
    /\ Out(T1).tag = "Denied"

(* C11 as stated: the reason is "policy predicate did not match" *)
C11_AsStated ==
    \A t \in Tasks : \A e \in ReturnsOf(t, "InternalPolicy") :
        LET p == returns[t][e].policy
            res == returns[t][e].result
        IN In(t) \notin p.predicate =>
              res = Denied(p.name, "policy predicate did not match")

----------------------------------------------------------------------------
(* every predicate that was set on builder b is true on its argument *)
SetPredicatesHold(b, in) ==
    /\ b.subject_pred # None => in.subject \in Unwrap(b.subject_pred)
    /\ b.action_pred # None => in.action \in Unwrap(b.action_pred)
    /\ b.resource_pred # None => in.resource \in Unwrap(b.resource_pred)
    /\ b.context_pred # None => in.context \in Unwrap(b.context_pred)
    /\ b.extra_condition # None => in \in Unwrap(b.extra_condition)

(* the builder after new and the setters named in which, effect Allow *)
BuilderWith(which) ==
    [PolicyBuilder_new("BuiltPolicy") EXCEPT
        !.subject_pred = IF "subjects" \in which THEN Some({"Alice"}) ELSE None,
        !.action_pred = IF "actions" \in which THEN Some({"read"}) ELSE None,
        !.resource_pred = IF "resources" \in which THEN Some({"doc1"}) ELSE None,
        !.context_pred = IF "context" \in which THEN Some({"enabled"}) ELSE None,
        !.extra_condition =
            IF "when" \in which
            THEN Some({in \in Inputs : Owner[in.resource] = in.subject})
            ELSE None]

(* C12: the predicate of a built policy is the conjunction of exactly the  *)
(* predicates that were set, an unset one counting as true: build gives a  *)
(* policy that matches an input iff every set predicate is true on it, and *)
(* an evaluation takes the match branch iff the input matches.             *)
C12_EvalState ==
    \A t \in Tasks : \A e \in ReturnsOf(t, "InternalPolicy") :
        LET p == returns[t][e].policy
            res == returns[t][e].result
        IN /\ (res.tag = "Granted" \/ res.reason = "Policy denied access")
                <=> In(t) \in p.predicate
           /\ \A which \in SUBSET {"subjects", "actions", "resources",
                                   "context", "when"} :
                 p = PolicyBuilder_build(BuilderWith(which)) =>
                    (is_granted(res) <=> SetPredicatesHold(BuilderWith(which), In(t)))
C12_BuildStep ==
    BuilderBuild =>
        /\ HasBuilt'
        /\ \A in \in Inputs :
              in \in BuiltPolicy'.predicate
                  <=> SetPredicatesHold(Unwrap(builder), in)
C12_PredicateConjunction == []C12_EvalState /\ [][C12_BuildStep]_vars

(* subjects and when were set; Alice asks for Bob's doc2: one true, one false *)
C12_Witness ==
    /\ Done(T1) /\ PolicyEval(T1)
    /\ BuiltPolicy = PolicyBuilder_build(BuilderWith({"subjects", "when"}))
    /\ In(T1).subject = "Alice" /\ In(T1).resource = "doc2"
    /\ ~is_granted(Out(T1))

----------------------------------------------------------------------------
(* a policy built by PolicyBuilder with effect Deny *)
IsDenyBuilt(p) == p.kind = "InternalPolicy" /\ p.effect = Deny

(* C13: a built policy with effect Deny returns Denied on every input, on  *)
(* a match and on a non-match; so whether the checker grants is decided by *)
(* its other policies alone, wherever in the list the Deny policies stand: *)
(* the checker grants iff the list without them would.                     *)
C13_DenyNeverGrants ==
    \A t \in Tasks :
        /\ \A e \in ReturnsOf(t, "InternalPolicy") :
              IsDenyBuilt(returns[t][e].policy) =>
                  /\ returns[t][e].result.tag = "Denied"
                  /\ ~is_granted(returns[t][e].result)
        /\ (Done(t) /\ CheckerEval(t)) =>
              (Out(t).tag = "Granted" <=>
                  \E i \in 1..Len(policies) :
                      ~IsDenyBuilt(policies[i]) /\ Grants(policies[i], In(t)))

(* DenyAll stands first and matches; the owner condition after it grants *)
C13_Witness ==
    /\ Done(T1) /\ CheckerEval(T1)
    /\ Len(policies) = 2
    /\ IsDenyBuilt(policies[1]) /\ In(T1) \in policies[1].predicate
    /\ policies[2] = AbacPolicy_new(OwnerCondition)
    /\ Out(T1).tag = "Granted"
    /\ Out(T1).policy_type = "AbacPolicy"

----------------------------------------------------------------------------
(* the elements of a Vec *)
Range(seq) == {seq[i] : i \in 1..Len(seq)}

(* C14: RbacPolicy grants iff the roles required for (resource, action)    *)
(* and the roles the subject holds have a role in common; it denies when   *)
(* either is empty; holding {A} against required {A,B} is granted, holding *)
(* {C} is denied.                                                          *)
C14_RbacIntersection ==
    /\ has_role(<< "A", "B" >>, << "A" >>)
    /\ ~has_role(<< "A", "B" >>, << "C" >>)
    /\ \A t \in Tasks : \A e \in ReturnsOf(t, "RbacPolicy") :
        LET p == returns[t][e].policy
            res == returns[t][e].result
            required == Range(p.required_roles_resolver[
                                  <<In(t).resource, In(t).action>>])
            held == Range(p.user_roles_resolver[In(t).subject])
        IN /\ res.tag \in {"Granted", "Denied"}
           /\ res.tag = "Granted" <=> required \cap held # {}
           /\ (required = {} \/ held = {}) => res.tag = "Denied"
           /\ res.policy_type = "RbacPolicy"

(* Alice holds {A} and reads doc1, which requires {A, B} *)
C14_Witness ==
    /\ Done(T1) /\ CheckerEval(T1)
    /\ policies = << RbacPolicy_new(RequiredRoles, UserRoles) >>
    /\ In(T1).subject = "Alice" /\ In(T1).resource = "doc1"
    /\ In(T1).action = "read"
    /\ UserRoles["Alice"] = << "A" >>
    /\ RequiredRoles[<<"doc1", "read">>] = << "A", "B" >>
    /\ Out(T1).tag = "Granted"

----------------------------------------------------------------------------
(* C15: one evaluation of a RebacPolicy calls its resolver exactly once,   *)
(* with the subject, the resource and the policy's relationship label, and *)
(* grants iff the resolver answered true; the reason, granted or denied,   *)
(* contains the label.                                                     *)
C15_RebacResolver ==
    \A t \in Tasks :
        /\ Len(resolver_calls[t]) <=
               Cardinality({k \in 1..Len(calls[t]) :
                   PolicyAt(t, calls[t][k]).kind = "RebacPolicy"})
        /\ Len(resolver_calls[t]) >= Cardinality(ReturnsOf(t, "RebacPolicy"))
        /\ Done(t) => Len(resolver_calls[t]) =
                          Cardinality(ReturnsOf(t, "RebacPolicy"))
        /\ \A e \in ReturnsOf(t, "RebacPolicy") :
            LET p == returns[t][e].policy
                res == returns[t][e].result
                \* this evaluation's resolver call: RebacPolicy returns in
                \* the order it was called
                n == Cardinality({k \in ReturnsOf(t, "RebacPolicy") : k <= e})
                call == resolver_calls[t][n]
            IN /\ call = [subject |-> In(t).subject,
                          resource |-> In(t).resource,
                          relationship |-> p.relationship]
               /\ is_granted(res) <=>
                     has_relationship(p.resolver, call.subject, call.resource,
                                      call.relationship)
               /\ res.tag \in {"Granted", "Denied"}
               /\ p.relationship \in Range(Unwrap(reason_of(res)))

(* Alice owns doc1: the resolver was asked once, for "owner", and said yes *)
C15_Witness ==
    /\ Done(T1) /\ CheckerEval(T1)
    /\ policies = << RebacPolicy_new("owner",
                        DummyRelationshipResolver_new(OwnerRelationships)) >>
    /\ resolver_calls[T1] = << [subject |-> "Alice", resource |-> "doc1",
                                relationship |-> "owner"] >>
    /\ Out(T1).tag = "Granted"

----------------------------------------------------------------------------
(* builders, effect Allow, each of whose set predicates returns false; the *)
(* second kind has at least one predicate set                              *)
FalseOrUnset == {None, Some({})}
FailingBuilders(name) ==
    { [name |-> name, effect |-> Allow, subject_pred |-> sp,
       action_pred |-> ap, resource_pred |-> rp, context_pred |-> cp,
       extra_condition |-> ec] :
         sp \in FalseOrUnset, ap \in FalseOrUnset, rp \in FalseOrUnset,
         cp \in FalseOrUnset, ec \in FalseOrUnset }
FailingBuildersSet(name) ==
    FailingBuilders(name) \ {PolicyBuilder_new(name)}

(* on input in, every resolver and predicate under a leaf policy p answers *)
(* false or with no roles; builders are those a built policy may come from *)
LeafHostFails(p, in, builders) ==
    CASE p.kind = "RbacPolicy" ->
            \/ p.user_roles_resolver[in.subject] = << >>
            \/ p.required_roles_resolver[<<in.resource, in.action>>] = << >>
      [] p.kind = "AbacPolicy" -> in \notin p.condition
      [] p.kind = "RebacPolicy" ->
            ~has_relationship(p.resolver, in.subject, in.resource,
                              p.relationship)
      [] p.kind = "InternalPolicy" ->
            \E b \in builders : p = PolicyBuilder_build(b)
      [] OTHER -> FALSE

(* the policies the claim is about, their host answering false throughout *)
RECURSIVE HostFails(_, _)
HostFails(p, in) ==
    CASE p.kind \in {"AndPolicy", "OrPolicy"} ->
            \A i \in 1..Len(p.policies) : HostFails(p.policies[i], in)
      [] p.kind = "NotPolicy" -> HostFails(p.policy, in)
      [] p.kind = "InternalPolicy" ->
            LeafHostFails(p, in, FailingBuilders(p.name))
      [] OTHER -> LeafHostFails(p, in, {})

(* the same without NotPolicy and without builders that set no predicate *)
RECURSIVE HostFailsNoNot(_, _)
HostFailsNoNot(p, in) ==
    CASE p.kind \in {"AndPolicy", "OrPolicy"} ->
            \A i \in 1..Len(p.policies) : HostFailsNoNot(p.policies[i], in)
      [] p.kind = "NotPolicy" -> FALSE
      [] p.kind = "InternalPolicy" ->
            LeafHostFails(p, in, FailingBuildersSet(p.name))
      [] OTHER -> LeafHostFails(p, in, {})

(* C16 as amended: for a checker whose policies are RbacPolicy, AbacPolicy, *)
(* RebacPolicy, Allow-effect builder policies with at least one predicate   *)
(* set, and AND/OR combinators of these, without NotPolicy: if every        *)
(* predicate and resolver returns false, and role resolvers no roles, the   *)
(* checker returns Denied, and so does each of these policies.              *)
C16_FailClosed ==
    \A t \in Tasks :
        /\ (/\ Done(t) /\ CheckerEval(t)
            /\ \A i \in 1..Len(policies) : HostFailsNoNot(policies[i], In(t)))
              => Out(t).tag = "Denied"
        /\ \A e \in 1..Len(returns[t]) :
              HostFailsNoNot(returns[t][e].policy, In(t)) =>
                  ~is_granted(returns[t][e].result)

(* OR(abac, rebac) and a builder policy, every answer false: denied *)
C16_Witness ==
    /\ Done(T1) /\ CheckerEval(T1)
    /\ Len(policies) = 2
    /\ policies[1].kind = "OrPolicy"
    /\ policies[2].kind = "InternalPolicy"
    /\ \A i \in 1..2 : HostFailsNoNot(policies[i], In(T1))
    /\ Len(resolver_calls[T1]) = 1
    /\ Out(T1).tag = "Denied"
    /\ Out(T1).reason = "All policies denied access"

(* C16 as stated: NotPolicy and builders with no predicate included *)
C16_AsStated ==
    \A t \in Tasks :
        (/\ Done(t) /\ CheckerEval(t)
         /\ \A i \in 1..Len(policies) : HostFails(policies[i], In(t)))
           => Out(t).tag = "Denied"

----------------------------------------------------------------------------
(* an operation applied to the outcomes of the children *)
Applied(operation, children) ==
    CASE operation = "And" -> \A k \in 1..Len(children) : is_granted(children[k])
      [] operation = "Or" -> \E k \in 1..Len(children) : is_granted(children[k])
      [] operation = "Not" -> Len(children) = 1 /\ ~is_granted(children[1])

(* every Combined node of the tree r stores what its operation gives *)
RECURSIVE OutcomesAgree(_)
OutcomesAgree(r) ==
    r.tag = "Combined" =>
        /\ r.operation \in CombineOp
        /\ r.outcome = Applied(r.operation, r.children)
        /\ \A k \in 1..Len(r.children) : OutcomesAgree(r.children[k])

(* the position in returns of the call at path, which has returned *)
ReturnIndex(t, path) == CHOOSE k \in ReturnsAt(t, path) : TRUE
(* the position in calls of the call at path *)
CallIndex(t, path) == CHOOSE k \in 1..Len(calls[t]) : calls[t][k] = path

(* the children of a node are the results of the calls made below path, in *)
(* the order the calls were made and returned                              *)
InEvaluationOrder(t, path, children) ==
    \A k \in 1..Len(children) :
        /\ ReturnsAt(t, path \o << k >>) # {}
        /\ children[k] = ResultAt(t, path \o << k >>)
        /\ k > 1 =>
              /\ ReturnIndex(t, path \o << k - 1 >>) < ReturnIndex(t, path \o << k >>)
              /\ CallIndex(t, path \o << k - 1 >>) < CallIndex(t, path \o << k >>)

(* C17: in every result tree a combinator or the checker produces, nested  *)
(* and short-circuited ones too, each Combined node's outcome is its       *)
(* operation applied to the outcomes of its recorded children, AND all,    *)
(* OR some, NOT the negation of the one, and the children stand in the     *)
(* order they were evaluated.                                              *)
C17_TreeOutcomes ==
    \A t \in Tasks :
        /\ \A e \in 1..Len(returns[t]) :
              LET res == returns[t][e].result
              IN /\ OutcomesAgree(res)
                 /\ IsCombinator(returns[t][e].policy) =>
                       /\ res.tag = "Combined"
                       /\ InEvaluationOrder(t, returns[t][e].path, res.children)
        /\ (Done(t) /\ CheckerEval(t) /\ policies # << >>) =>
              LET root == Unwrap(Out(t).trace.root)
              IN /\ root.tag = "Combined"
                 /\ OutcomesAgree(root)
                 /\ root.outcome = (Out(t).tag = "Granted")
                 /\ InEvaluationOrder(t, << >>, root.children)
        /\ (Done(t) /\ PolicyEval(t)) => OutcomesAgree(Out(t))

(* a nested tree with a short-circuited inner AND: NOT(AND(deny, allow)) *)
C17_Witness ==
    /\ Done(T1) /\ CheckerEval(T1)
    /\ policies = << NotPolicy_new(
           [kind |-> "AndPolicy",
            policies |-> << CountingPolicy(FALSE), CountingPolicy(TRUE) >>]) >>
    /\ Unwrap(Out(T1).trace.root).children[1].outcome = TRUE
    /\ Len(Unwrap(Out(T1).trace.root).children[1].children[1].children) = 1

----------------------------------------------------------------------------
(* the lists that are ps in another order *)
Reorderings(ps) ==
    { [i \in 1..Len(ps) |-> ps[f[i]]] : f \in Permutations(1..Len(ps)) }

(* C18: the final outcome does not depend on the order of the list.  What  *)
(* an AndPolicy, an OrPolicy and the checker return on a list is what all, *)
(* respectively some, of the policies of any reordering of the list give   *)
(* on the input; every reordering is itself a list that is built and run,  *)
(* so the runs on a list and on each of its reorderings end the same.      *)
C18_OrderIndependent ==
    \A t \in Tasks :
        /\ \A e \in ReturnsOf(t, "AndPolicy") :
              \A qs \in Reorderings(returns[t][e].policy.policies) :
                  is_granted(returns[t][e].result)
                      = (\A i \in 1..Len(qs) : Grants(qs[i], In(t)))
        /\ \A e \in ReturnsOf(t, "OrPolicy") :
              \A qs \in Reorderings(returns[t][e].policy.policies) :
                  is_granted(returns[t][e].result)
                      = (\E i \in 1..Len(qs) : Grants(qs[i], In(t)))
        /\ (Done(t) /\ CheckerEval(t) /\ policies # << >>) =>
              \A qs \in Reorderings(policies) :
                  (Out(t).tag = "Granted")
                      = (\E i \in 1..Len(qs) : Grants(qs[i], In(t)))

(* OR(deny, allow): granted after two calls, where OR(allow, deny) makes one *)
C18_Witness ==
    /\ Done(T1) /\ PolicyEval(T1)
    /\ BuiltPolicy = [kind |-> "OrPolicy",
                      policies |-> << CountingPolicy(FALSE), CountingPolicy(TRUE) >>]
    /\ << CountingPolicy(TRUE), CountingPolicy(FALSE) >>
           \in Reorderings(BuiltPolicy.policies)
    /\ is_granted(Out(T1))
    /\ evaluation_count = 2

----------------------------------------------------------------------------
(* the calls of task t that have not returned *)
InFlight(t) == {c \in Range(calls[t]) : ReturnsAt(t, c) = {}}
IsPrefix(a, b) == Len(a) <= Len(b) /\ SubSeq(b, 1, Len(a)) = a
(* the positions of the children called from the call at path, in order *)
ChildrenCalled(t, path) ==
    LET below == SelectSeq(calls[t],
                     LAMBDA c : Len(c) = Len(path) + 1 /\ IsPrefix(path, c))
    IN [k \in 1..Len(below) |-> Last(below[k])]
(* the paths from which calls were made: the checker's, and the calls' own *)
Callers(t) ==
    (IF RootIsPolicy(t) THEN {} ELSE {<< >>}) \cup Range(calls[t])

(* C19: within one call of the checker or of a combinator the children are *)
(* invoked one at a time in list order: child k+1 only once the result of  *)
(* child k is in, never two children in flight, the positions invoked a    *)
(* prefix 1..m of the list; and a call returns only when every child it    *)
(* invoked has returned.                                                   *)
C19_Sequential ==
    \A t \in Tasks :
      LET in_flight == InFlight(t)
      IN
        /\ \A a, b \in in_flight : IsPrefix(a, b) \/ IsPrefix(b, a)
        /\ \A path \in Callers(t) :
              LET called == ChildrenCalled(t, path)
              IN /\ called = [k \in 1..Len(called) |-> k]
                 /\ \A k \in 1..(Len(called) - 1) :
                       /\ ReturnsAt(t, path \o << k >>) # {}
                       /\ \E i \in 1..Len(calls[t]) :
                             /\ calls[t][i] = path \o << k + 1 >>
                             /\ \A j \in 1..Len(calls[t]) :
                                   calls[t][j] = path \o << k >> => j < i
                 /\ Cardinality({k \in 1..Len(called) :
                                    path \o << k >> \in in_flight}) <= 1
                 /\ (path # << >> \/ RootIsPolicy(t)) =>
                       Len(called) <=
                           (IF PolicyAt(t, path).kind = "NotPolicy" THEN 1
                            ELSE IF IsCombinator(PolicyAt(t, path))
                                 THEN Len(PolicyAt(t, path).policies)
                                 ELSE 0)
                 /\ (path = << >> /\ ~RootIsPolicy(t)) =>
                       Len(called) <= Len(policies)
        /\ \A e \in 1..Len(returns[t]) :
              \A c \in in_flight : ~IsPrefix(returns[t][e].path, c)
        /\ Done(t) => in_flight = {}

(* the checker's second policy is in flight, the first has returned *)
C19_Witness ==
    /\ pc[T1] = "running" /\ ~RootIsPolicy(T1)
    /\ calls[T1] = << << 1 >>, << 2 >> >>
    /\ ReturnsAt(T1, << 1 >>) # {}
    /\ InFlight(T1) = { << 2 >> }

----------------------------------------------------------------------------
(* the checker's policies whose call has returned to it *)
TopReturned(t) == {k \in 1..Len(policies) : ReturnsAt(t, << k >>) # {}}

(* C20: in one evaluation of the checker one audit event is emitted for    *)
(* each top-level policy invoked, in evaluation order, whether it granted  *)
(* or denied; its outcome is "success" iff that policy's result is         *)
(* granted; the granting policy's event is there when the checker returns; *)
(* policies skipped by the short-circuit, and policies below the top       *)
(* level, have no event.                                                   *)
C20_AuditState ==
    \A t \in {T1} :
        /\ PolicyEval(t) => audit = << >>
        /\ CheckerEval(t) =>
            /\ Len(audit) <= Cardinality(TopReturned(t))
            /\ Cardinality(TopReturned(t)) <= Len(audit) + 1
            /\ (ret[t] = None /\ InFlight(t) = {}) =>
                  Len(audit) = Cardinality(TopReturned(t))
            /\ \A k \in 1..Len(audit) :
                  /\ k \in TopReturned(t)
                  /\ audit[k].rule_name = policy_type(policies[k])
                  /\ audit[k].policy_type = policy_type(policies[k])
                  /\ audit[k].category = "Access Control"
                  /\ audit[k].outcome \in {"success", "failure"}
                  /\ audit[k].outcome = "success"
                        <=> is_granted(ResultAt(t, << k >>))
                  /\ audit[k].reason = reason_of(ResultAt(t, << k >>))
                  /\ audit[k].outcome = "success" => k = Len(audit)
            /\ Done(t) =>
                  /\ Len(audit) = Len(TopCalls(t))
                  /\ policies # << >> =>
                        Len(audit) = Len(Unwrap(Out(t).trace.root).children)
                  /\ Out(t).tag = "Granted" =>
                        /\ audit # << >>
                        /\ audit[Len(audit)].outcome = "success"
                        /\ audit[Len(audit)].rule_name = Out(t).policy_type
                        /\ Len(audit) = FirstGranting(policies, In(t))
                  /\ Out(t).tag = "Denied" => Len(audit) = Len(policies)
C20_AuditStep ==
    /\ Len(audit') >= Len(audit)
    /\ SubSeq(audit', 1, Len(audit)) = audit
    /\ Len(audit') <= Len(audit) + 1
    /\ Done(T1) => audit' = audit
C20_AuditEvents == []C20_AuditState /\ [][C20_AuditStep]_vars

(* deny, grant, and a third policy skipped: two events, failure then success *)
C20_Witness ==
    /\ Done(T1) /\ CheckerEval(T1)
    /\ Len(policies) = 3
    /\ Out(T1).tag = "Granted"
    /\ Len(audit) = 2
    /\ audit[1].outcome = "failure" /\ audit[2].outcome = "success"

----------------------------------------------------------------------------
(* A host that keeps its checker: it adds policies between evaluations,    *)
(* whenever no evaluate_access call borrows the checker, and evaluates     *)
(* again after dropping the last AccessEvaluation.                         *)

SessionPolicies == { AlwaysAllowPolicy, AlwaysDenyPolicy("DenyPolicy1") }
SessionInputs ==
    { in \in Inputs : /\ in.action = "read" /\ in.resource = "doc1"
                      /\ in.context = "enabled" }

(* checker.add_policy(policy), which takes &mut self *)
AddPolicyBetweenCalls(p) ==
    /\ \A t \in Tasks : pc[t] # "running"
    /\ builder = None
    /\ Len(policies) < MaxPolicies
    /\ policies' = add_policy(policies, p)
    /\ UNCHANGED <<builder, built, EvalVars>>

(* the host drops the AccessEvaluation it got and what it logged for it *)
DropResult(t) ==
    /\ pc[t] = "done"
    /\ pc' = [pc EXCEPT ![t] = "idle"]
    /\ input' = [input EXCEPT ![t] = None]
    /\ result' = [result EXCEPT ![t] = None]
    /\ calls' = [calls EXCEPT ![t] = << >>]
    /\ returns' = [returns EXCEPT ![t] = << >>]
    /\ audit' = << >>
    /\ UNCHANGED <<printed, policies, builder, built, stack, ret, evaluation_count,
                   resolver_calls>>

(* One step of task t's evaluation of the checker over leaf policies *)
StepSession(t) ==
    \/ \E in \in SessionInputs : StartChecker(t, in)
    \/ CheckerCall(t)
    \/ CheckerResume(t)
    \/ LeafEval(t)

NextSession ==
    \/ \E p \in SessionPolicies : AddPolicyBetweenCalls(p)
    \/ StepSession("t1")
    \/ DropResult("t1")

SpecSession == Init /\ [][NextSession]_vars

(* C21: the checker's list is append-only.  It starts empty; a step either *)
(* leaves it as it is or is an add_policy that makes it one longer, with   *)
(* the policy passed in last and every earlier entry where it was; no step *)
(* of evaluate_access and no other operation changes it.  So the list is   *)
(* always the policies passed to add_policy, in call order.                *)
C21_ListStep ==
    /\ policies' # policies =>
          \E p \in SessionPolicies :
              /\ AddPolicyBetweenCalls(p)
              /\ policies' = Append(policies, p)
    /\ \A p \in SessionPolicies :
          AddPolicyBetweenCalls(p) =>
              /\ Len(policies') = Len(policies) + 1
              /\ policies'[Len(policies')] = p
              /\ SubSeq(policies', 1, Len(policies)) = policies
    /\ (StepSession(T1) \/ DropResult(T1)) => policies' = policies
C21_AppendOnly ==
    /\ (policies = << >>) /\ [][C21_ListStep]_vars
    /\ [](\A i \in 1..Len(policies) : policies[i] \in SessionPolicies)

(* an evaluation over one policy has ended in a denial, and two policies   *)
(* were added after it: deny first, allow last                             *)
C21_Witness ==
    /\ Done(T1) /\ Out(T1).tag = "Denied"
    /\ Unwrap(Out(T1).trace.root).tag = "Combined"
    /\ Len(Unwrap(Out(T1).trace.root).children) = 1
    /\ policies = << AlwaysDenyPolicy("DenyPolicy1"), AlwaysAllowPolicy,
                     AlwaysAllowPolicy >>

----------------------------------------------------------------------------
(* Two request handlers share one checker (an Arc<PermissionChecker>, as   *)
(* in the web examples): the policies are added first, then each handler   *)
(* calls evaluate_access with its own arguments, and the two calls are     *)
(* interleaved at every .await.                                            *)

MaxSharedPolicies == 2

SharedPolicies ==
    { RbacPolicy_new(RequiredRoles, UserRoles),
      RebacPolicy_new("owner", DummyRelationshipResolver_new(OwnerRelationships)),
      CountingPolicy(FALSE),
      AndPolicy_try_new(<< FeatureFlagPolicy, CountingPolicy(TRUE) >>).policy }

SharedInputs == {in \in Inputs : in.resource = "doc1"}

(* checker.add_policy(policy), before the checker is shared *)
AddSharedPolicy(p) ==
    /\ AllIdle /\ builder = None
    /\ Len(policies) < MaxSharedPolicies
    /\ policies' = add_policy(policies, p)
    /\ UNCHANGED <<builder, built, EvalVars>>

(* One step of handler t's evaluation of the shared checker *)
StepShared(t) ==
    \/ \E in \in SharedInputs : StartChecker(t, in)
    \/ CheckerCall(t)
    \/ CheckerResume(t)
    \/ AndCall(t)
    \/ AndResume(t)
    \/ LeafEval(t)
    \/ CountingEval(t)
    \/ RebacCall(t)
    \/ RebacResume(t)

NextShared ==
    \/ \E p \in SharedPolicies : AddSharedPolicy(p)
    \/ StepShared("t1")
    \/ StepShared("t2")

SpecShared == Init /\ [][NextShared]_vars

----------------------------------------------------------------------------
(* the two handlers *)
H1 == "t1"
H2 == "t2"

(* C22: evaluate_access leaves the checker's policy list, and with it the  *)
(* configuration of every policy in it, and whatever the host built,       *)
(* unchanged, at every step of the checker's, the combinator's and the     *)
(* built-in policies' evaluation; two evaluations of the same checker on   *)
(* the same subject, action, resource and context, one after the other or  *)
(* interleaved, return the same decision, reason and trace, and the same   *)
(* result from every policy they both invoked.                             *)
C22_EvalStep ==
    (StepShared(H1) \/ StepShared(H2)) =>
        /\ policies' = policies
        /\ built' = built
        /\ builder' = builder

C22_SameResults ==
    (input[H1] # None /\ input[H1] = input[H2]) =>
        /\ (Done(H1) /\ Done(H2)) => Out(H1) = Out(H2)
        /\ \A k1 \in 1..Len(returns[H1]) : \A k2 \in 1..Len(returns[H2]) :
              returns[H1][k1].path = returns[H2][k2].path =>
                  returns[H1][k1] = returns[H2][k2]

C22_EvaluationIsPure == []C22_SameResults /\ [][C22_EvalStep]_vars

(* both handlers got the grant of the AND policy, after the counting       *)
(* policy before it denied both; the shared counter was bumped four times  *)
C22_Witness ==
    /\ Done(H1) /\ Done(H2) /\ In(H1) = In(H2)
    /\ Len(policies) = 2
    /\ policies[1] = CountingPolicy(FALSE)
    /\ policies[2].kind = "AndPolicy"
    /\ Out(H1).tag = "Granted" /\ Out(H2) = Out(H1)
    /\ evaluation_count = 4

----------------------------------------------------------------------------
(* What one evaluate_access call returns when nothing else runs: the       *)
(* loops of the checker and the combinators, run to their end in one go    *)
FirstOf(S) == CHOOSE i \in S : \A j \in S : i <= j

RECURSIVE EvaluateAlone(_, _)
EvaluateAlone(p, in) ==
    CASE p.kind = "AndPolicy" ->
            LET all == [i \in 1..Len(p.policies) |->
                           EvaluateAlone(p.policies[i], in)]
                stop == {i \in 1..Len(all) : AndShortCircuits(all[i])}
            IN IF stop = {}
               THEN AndCombined(p, all, TRUE)
               ELSE AndCombined(p, SubSeq(all, 1, FirstOf(stop)), FALSE)
      [] p.kind = "OrPolicy" ->
            LET all == [i \in 1..Len(p.policies) |->
                           EvaluateAlone(p.policies[i], in)]
                stop == {i \in 1..Len(all) : OrShortCircuits(all[i])}
            IN IF stop = {}
               THEN OrCombined(p, all, FALSE)
               ELSE OrCombined(p, SubSeq(all, 1, FirstOf(stop)), TRUE)
      [] p.kind = "NotPolicy" -> NotCombined(p, EvaluateAlone(p.policy, in))
      [] p.kind = "RebacPolicy" ->
            RebacPolicy_evaluate_access(p,
                has_relationship(p.resolver, in.subject, in.resource,
                                 p.relationship))
      [] OTHER -> LeafResult(p, in)

CheckerAlone(ps, in) ==
    IF ps = << >>
    THEN NoPoliciesEvaluation
    ELSE LET all == [i \in 1..Len(ps) |-> EvaluateAlone(ps[i], in)]
             stop == {i \in 1..Len(all) : CheckerShortCircuits(all[i])}
         IN IF stop = {}
            THEN CheckerDenied(all)
            ELSE CheckerGranted(ps[FirstOf(stop)], all[FirstOf(stop)],
                                SubSeq(all, 1, FirstOf(stop)))

(* C23: two evaluate_access calls on the same checker, interleaved in any  *)
(* way at the points where a policy call is awaited, do not interfere:     *)
(* each call returns the decision, reason and trace it returns when it     *)
(* runs alone, every policy call made within it returns what that policy   *)
(* returns alone on the call's own input, and the children of every node   *)
(* of its trace are the results of the call's own invocations, in the      *)
(* order it made them.                                                     *)
C23_NoInterference ==
    \A t \in Tasks :
        /\ Done(t) => Out(t) = CheckerAlone(policies, In(t))
        /\ (Done(t) /\ policies # << >>) =>
              /\ Unwrap(Out(t).trace.root).tag = "Combined"
              /\ InEvaluationOrder(t, << >>,
                     Unwrap(Out(t).trace.root).children)
        /\ \A k \in 1..Len(returns[t]) :
              LET r == returns[t][k]
              IN /\ r.result = EvaluateAlone(r.policy, In(t))
                 /\ r.policy = PolicyAt(t, r.path)
                 /\ r.result.tag = "Combined" =>
                       InEvaluationOrder(t, r.path, r.result.children)

(* the two calls were interleaved, policy by policy, on inputs that differ *)
(* in subject and context; one was granted by the AND policy, the other    *)
(* denied by both policies                                                 *)
C23_Witness ==
    /\ Done(H1) /\ Done(H2)
    /\ In(H1).subject # In(H2).subject /\ In(H1).context # In(H2).context
    /\ Len(policies) = 2
    /\ policies[1].kind = "RbacPolicy" /\ policies[2].kind = "AndPolicy"
    /\ Out(H1).tag = "Granted" /\ Out(H2).tag = "Denied"
    /\ Len(audit) = 4
    /\ audit[1].rule_name = audit[2].rule_name
    /\ audit[3].rule_name = audit[4].rule_name
    /\ evaluation_count = 1

----------------------------------------------------------------------------
(* An evaluation that has started is driven to its end: the executor polls *)
(* the future whenever it can make progress, and every predicate and       *)
(* resolver the policies call returns.                                     *)
RunAccess(t) == pc[t] = "running" /\ StepAccess(t)

(* what every step of an evaluation changes: where each call stands *)
position == <<pc, stack, calls, resolver_calls>>

SpecAccessLive == SpecAccess /\ WF_position(RunAccess("t1"))

(* C24: an evaluation that has started on a checker of N policies comes to *)
(* its end, provided every predicate and resolver called returns; it ends  *)
(* with one AccessEvaluation, Granted or Denied, which is final once       *)
(* returned; until then there is none; each top-level policy is invoked at *)
(* most once, so at most N top-level invocations are made.                 *)
C24_Bounded ==
    /\ Len(TopCalls(T1)) <= Len(policies)
    /\ \A k \in 1..Len(policies) : NumCalls(T1, << k >>) <= 1
    /\ \A k \in 1..Len(calls[T1]) : Head(calls[T1][k]) \in 1..Len(policies)
    /\ Done(T1) <=> result[T1] # None
    /\ Done(T1) => Out(T1).tag \in {"Granted", "Denied"}

C24_ResultIsFinal == result[T1] # None => result'[T1] = result[T1]

C24_Terminates ==
    /\ (pc[T1] = "running") ~> Done(T1)
    /\ []C24_Bounded
    /\ [][C24_ResultIsFinal]_vars

(* a denial reached after both policies were invoked, one of them the AND  *)
(* of RbacPolicy and RebacPolicy, the resolver called on the way           *)
C24_Witness ==
    /\ Done(T1) /\ Out(T1).tag = "Denied"
    /\ Len(policies) = MaxAccessPolicies
    /\ Len(TopCalls(T1)) = Len(policies)
    /\ \E k \in 1..Len(policies) : policies[k].kind = "AndPolicy"
    /\ resolver_calls[T1] # << >>

----------------------------------------------------------------------------
(* a reason with text in it; RebacPolicy's is formatted around its label *)
NonEmptyReason(policy_type_, reason) ==
    IF policy_type_ = "RebacPolicy"
    THEN reason # << >> /\ \A i \in 1..Len(reason) : reason[i] # ""
    ELSE reason # ""

(* C25 (as amended): every AccessEvaluation::Denied the checker returns    *)
(* has a non-empty reason, and every Denied result of a built-in or        *)
(* builder-built policy has a non-empty reason, which is the reason the    *)
(* audit event of that policy reports; a combinator's result that is not   *)
(* granted is Combined and reports no reason, in reason() and in its       *)
(* audit event.                                                            *)
C25_DenialReasons ==
    /\ (Done(T1) /\ Out(T1).tag = "Denied") =>
          /\ Out(T1).reason \in
                 {"No policies configured", "All policies denied access"}
          /\ NonEmptyReason(PERMISSION_CHECKER_POLICY_TYPE, Out(T1).reason)
          /\ policies = << >> =>
                NonEmptyReason(PERMISSION_CHECKER_POLICY_TYPE,
                               Unwrap(Out(T1).trace.root).reason)
    /\ \A k \in 1..Len(returns[T1]) :
          LET r == returns[T1][k].result
          IN ~is_granted(r) =>
                IF IsCombinator(returns[T1][k].policy)
                THEN r.tag = "Combined" /\ reason_of(r) = None
                ELSE /\ r.tag = "Denied"
                     /\ NonEmptyReason(r.policy_type, r.reason)
    /\ \A i \in 1..Len(audit) :
          LET r == ResultAt(T1, << i >>)
          IN /\ audit[i].outcome = "failure" <=> ~is_granted(r)
             /\ r.tag = "Denied" => audit[i].reason = Some(r.reason)
             /\ r.tag = "Combined" => audit[i].reason = None

(* the AND of RbacPolicy and RebacPolicy and a builder policy both denied: *)
(* the first audit event has no reason, the second the builder's           *)
C25_Witness ==
    /\ Done(T1) /\ Out(T1).tag = "Denied"
    /\ Len(policies) = 2 /\ Len(audit) = 2
    /\ policies[1].kind = "AndPolicy" /\ policies[2].kind = "InternalPolicy"
    /\ audit[1].outcome = "failure" /\ audit[1].reason = None
    /\ audit[2].reason = Some("Policy predicate did not match")

(* C25 as stated: every result that is not granted, a combinator's too,    *)
(* reports a non-empty reason, and so does its audit event                 *)
C25_AsStated ==
    /\ \A k \in 1..Len(returns[T1]) :
          ~is_granted(returns[T1][k].result) =>
              reason_of(returns[T1][k].result) # None
    /\ \A i \in 1..Len(audit) :
          audit[i].outcome = "failure" => audit[i].reason # None

----------------------------------------------------------------------------
(* AND at the top level: the host puts its policies in an AndPolicy and    *)
(* adds that one policy to the checker.                                    *)
WrappedLeaves ==
    { CountingPolicy(TRUE), CountingPolicy(FALSE), FeatureFlagPolicy,
      RbacPolicy_new(RequiredRoles, UserRoles) }

(* checker.add_policy(and_policy) *)
WrapInChecker == HasBuilt /\ AddPolicy(BuiltPolicy)

StepWrapped(t) ==
    \/ \E in \in Inputs : StartChecker(t, in)
    \/ CheckerCall(t)
    \/ CheckerResume(t)
    \/ AndCall(t)
    \/ AndResume(t)
    \/ LeafEval(t)
    \/ CountingEval(t)

NextWrapped ==
    \/ \E ps \in SeqsOf(WrappedLeaves, 0, MaxChildren) : AndTryNew(ps)
    \/ WrapInChecker
    \/ StepWrapped("t1")

SpecWrapped == Init /\ [][NextWrapped]_vars

(* the counting policies among the first n of ps *)
CountingAmong(ps, n) ==
    Cardinality({i \in 1..n : ps[i].kind = "CountingPolicy"})

(* C26: a checker whose only policy is AndPolicy(P1..Pn) returns Granted   *)
(* exactly when every Pi grants, naming the AndPolicy; otherwise it        *)
(* returns Denied with reason "All policies denied access", and no Pi      *)
(* after the first that does not grant is invoked; in both cases the       *)
(* checker's OR root has one child, the AndPolicy's Combined AND node,     *)
(* holding the results of the Pi evaluated.                                *)
C26_AndWrapping ==
    (CheckerEval(T1) /\ policies # << >>) =>
        LET ps == policies[1].policies
            fd == FirstDenying(ps, In(T1))
            evaluated == IF fd = 0 THEN Len(ps) ELSE fd
        IN /\ Len(policies) = 1 /\ policies[1].kind = "AndPolicy"
           /\ \A k \in 1..Len(calls[T1]) :
                 Len(calls[T1][k]) = 2 => calls[T1][k][2] <= evaluated
           /\ Done(T1) =>
                 LET root == Unwrap(Out(T1).trace.root)
                 IN /\ Out(T1).tag = "Granted" <=>
                          \A i \in 1..Len(ps) : Grants(ps[i], In(T1))
                    /\ Out(T1).tag = "Granted" =>
                          Out(T1).policy_type = "AndPolicy"
                    /\ Out(T1).tag = "Denied" =>
                          Out(T1).reason = "All policies denied access"
                    /\ root.tag = "Combined"
                    /\ root.policy_type = PERMISSION_CHECKER_POLICY_TYPE
                    /\ root.operation = "Or"
                    /\ root.outcome = (fd = 0)
                    /\ Len(root.children) = 1
                    /\ root.children[1].tag = "Combined"
                    /\ root.children[1].policy_type = "AndPolicy"
                    /\ root.children[1].operation = "And"
                    /\ root.children[1].outcome = (fd = 0)
                    /\ root.children[1].children =
                          [i \in 1..evaluated |-> ResultAt(T1, << 1, i >>)]
                    /\ \A i \in 1..evaluated :
                          is_granted(ResultAt(T1, << 1, i >>)) <=> i # fd
                    /\ evaluation_count = CountingAmong(ps, evaluated)

(* RbacPolicy granted, the counting policy after it did not: Denied, the   *)
(* AND node with both results under the root                               *)
C26_Witness ==
    /\ Done(T1) /\ Out(T1).tag = "Denied"
    /\ Len(policies) = 1 /\ policies[1].kind = "AndPolicy"
    /\ Len(policies[1].policies) = 2
    /\ policies[1].policies[1].kind = "RbacPolicy"
    /\ Len(Unwrap(Out(T1).trace.root).children[1].children) = 2
    /\ evaluation_count = 1

----------------------------------------------------------------------------
(* Nested combinators: the host wraps what it built in a further           *)
(* combinator, next to a counting leaf, as the nested example and          *)
(* test_deeply_nested_combinators do, and evaluates the tree.              *)

MaxDepth == 4

RECURSIVE Depth(_)
Depth(p) ==
    CASE p.kind = "NotPolicy" -> 1 + Depth(p.policy)
      [] p.kind \in {"AndPolicy", "OrPolicy"} ->
            LET ds == {Depth(p.policies[i]) : i \in 1..Len(p.policies)}
            IN 1 + (CHOOSE d \in ds : \A e \in ds : e <= d)
      [] OTHER -> 0

CanNest == HasBuilt /\ Depth(BuiltPolicy) < MaxDepth

(* the vec! handed to try_new: two leaves; or what was built with a leaf   *)
(* before it, or with an allowing leaf after it                            *)
NestedVecs ==
    { << a, b >> : a \in OperandLeaves, b \in OperandLeaves }
        \cup (IF CanNest
              THEN { << a, BuiltPolicy >> : a \in OperandLeaves }
                       \cup { << BuiltPolicy, CountingPolicy(TRUE) >> }
              ELSE {})

NestedOperands == OperandLeaves \cup (IF CanNest THEN {BuiltPolicy} ELSE {})

(* the arguments of the example's one call *)
NestedInputs ==
    {in \in Inputs : in.subject = "Alice" /\ in.action = "read"
                     /\ in.resource = "doc1" /\ in.context = "enabled"}

(* Rendering.  A String is the sequence of the pieces written into it: a   *)
(* space, a glyph, a name, a literal of the format string, a line feed.    *)
MaxIndent == 2

SuccessGlyph == "U+2714"
FailureGlyph == "U+2718"
LineFeed == "\n"

(* " ".repeat(indent) *)
Spaces(n) == [i \in 1..n |-> " "]

(* the text of a reason: RebacPolicy's is kept as the pieces around its    *)
(* label                                                                   *)
ReasonText(policy_type_, reason) ==
    IF policy_type_ = "RebacPolicy" THEN reason ELSE << reason >>

RECURSIVE PolicyEvalResult_format(_, _)
RECURSIVE PushChildren(_, _, _)
RECURSIVE PushChildren_SameIndent(_, _, _)

(* variant: the children are rendered at their parent's indent *)
PushChildren_SameIndent(result_, children, indent) ==
    IF children = << >>
    THEN result_
    ELSE PushChildren_SameIndent(
             result_ \o << LineFeed >>
                 \o PolicyEvalResult_format(Head(children), indent),
             Tail(children), indent)

(* for child in children { result.push_str(&format!("\n{}",                *)
(* child.format(indent + 2))) }                                            *)
PushChildren(result_, children, indent) ==
    IF children = << >>
    THEN result_
    ELSE PushChildren(
             result_ \o << LineFeed >>
                 \o PolicyEvalResult_format(Head(children), indent + 2),
             Tail(children), indent)

(* PolicyEvalResult::format *)
PolicyEvalResult_format(r, indent) ==
    LET indent_str == Spaces(indent)
    IN CASE r.tag = "Granted" ->
               indent_str \o << SuccessGlyph, " ", r.policy_type, " GRANTED" >>
                   \o (IF r.reason = None
                       THEN << >>
                       ELSE << ": " >>
                                \o ReasonText(r.policy_type, Unwrap(r.reason)))
         [] r.tag = "Denied" ->
               indent_str \o << FailureGlyph, " ", r.policy_type, " DENIED: " >>
                   \o ReasonText(r.policy_type, r.reason)
         [] r.tag = "Combined" ->
               PushChildren(
                   indent_str
                       \o << IF r.outcome THEN SuccessGlyph ELSE FailureGlyph,
                             " ", r.policy_type, " (",
                             CombineOpDisplay(r.operation), ")" >>,
                   r.children, indent)

(* EvalTrace::new *)
EvalTrace_new == [root |-> None]

(* EvalTrace::format *)
EvalTrace_format(trace) ==
    IF trace.root # None
    THEN PolicyEvalResult_format(Unwrap(trace.root), 0)
    ELSE << "No evaluation trace available" >>

(* println!("Trace:\n{}", result.format(indent)) *)
PrintResult(t, indent) ==
    /\ Done(t) /\ PolicyEval(t) /\ printed = None
    /\ printed' = Some([call |-> "PolicyEvalResult::format",
                        indent |-> indent,
                        text |-> PolicyEvalResult_format(Out(t), indent)])
    /\ UNCHANGED <<policies, builder, built, pc, input, stack, ret, result,
                   calls, returns, audit, evaluation_count, resolver_calls>>

(* the same through a trace: EvalTrace::with_root(result).format(), and    *)
(* the format of a trace that has no root                                  *)
PrintTrace(t, trace) ==
    /\ Done(t) /\ PolicyEval(t) /\ printed = None
    /\ printed' = Some([call |-> "EvalTrace::format",
                        indent |-> 0,
                        trace |-> trace,
                        text |-> EvalTrace_format(trace)])
    /\ UNCHANGED <<policies, builder, built, pc, input, stack, ret, result,
                   calls, returns, audit, evaluation_count, resolver_calls>>

(* the host's constructor calls, before it evaluates *)
NestedAnd == AllIdle /\ \E ps \in NestedVecs : AndTryNew(ps)
NestedOr == AllIdle /\ \E ps \in NestedVecs : OrTryNew(ps)
NestedNot == AllIdle /\ \E p \in NestedOperands : NotNew(p)

StepNested(t) ==
    \/ \E in \in NestedInputs : StartPolicy(t, in)
    \/ AndCall(t)
    \/ AndResume(t)
    \/ OrCall(t)
    \/ OrResume(t)
    \/ NotCall(t)
    \/ NotResume(t)
    \/ CountingEval(t)
    \/ \E indent \in 0..MaxIndent : PrintResult(t, indent)
    \/ /\ Done(t)
       /\ \E trace \in {with_root(Out(t)), EvalTrace_new} : PrintTrace(t, trace)

NextNested == NestedAnd \/ NestedOr \/ NestedNot \/ StepNested("t1")

SpecNested == Init /\ [][NextNested]_vars

(* every path into the tree p, the root's being << >> *)
Arity(p) ==
    CASE p.kind = "NotPolicy" -> 1
      [] p.kind \in {"AndPolicy", "OrPolicy"} -> Len(p.policies)
      [] OTHER -> 0
RECURSIVE PathsOf(_)
PathsOf(p) ==
    {<< >>} \cup
        UNION { { << k >> \o q : q \in PathsOf(ChildOf(p, k)) } :
                    k \in 1..Arity(p) }

(* no earlier sibling short-circuited the parent, at every level of path:  *)
(* under AND all earlier siblings granted, under OR none did               *)
Reached(p, path, in) ==
    \A i \in 1..Len(path) :
        LET parent == Descend(p, SubSeq(path, 1, i - 1))
        IN \A j \in 1..(path[i] - 1) :
              IF parent.kind = "AndPolicy"
              THEN Grants(ChildOf(parent, j), in)
              ELSE ~Grants(ChildOf(parent, j), in)

LeafPaths(p) == {path \in PathsOf(p) : ~IsCombinator(Descend(p, path))}

(* the trees of the example and of the test *)
NestedExample ==
    OrPolicy_try_new(<<
        AndPolicy_try_new(<< CountingPolicy(FALSE),
                             CountingPolicy(TRUE) >>).policy,
        CountingPolicy(TRUE) >>).policy
DeeplyNested ==
    NotPolicy_new(
        AndPolicy_try_new(<<
            CountingPolicy(TRUE),
            OrPolicy_try_new(<<
                CountingPolicy(FALSE),
                NotPolicy_new(CountingPolicy(FALSE)) >>).policy >>).policy)

(* C28: in the evaluation of a combinator tree of any depth, a policy of   *)
(* the tree is invoked only if no earlier sibling short-circuited its      *)
(* parent, at every level above it, and by the end exactly those are, once *)
(* each; the outcome is the value of the boolean formula the tree stands   *)
(* for.  OR(AND(Deny, Allow), Allow) invokes the inner Deny and the outer  *)
(* Allow, two leaves, and grants; NOT(AND(Allow, OR(Deny, NOT(Deny)))) is  *)
(* denied.                                                                 *)
C28_NestedShortCircuit ==
    PolicyEval(T1) =>
        LET called == {calls[T1][k] : k \in 1..Len(calls[T1])}
            reached == {path \in PathsOf(BuiltPolicy) :
                           Reached(BuiltPolicy, path, In(T1))}
            leaves == called \cap LeafPaths(BuiltPolicy)
        IN /\ called \subseteq reached
           /\ Cardinality(called) = Len(calls[T1])
           /\ evaluation_count <= Cardinality(reached \cap LeafPaths(BuiltPolicy))
           /\ Done(T1) =>
                 /\ called = reached
                 /\ evaluation_count = Cardinality(leaves)
                 /\ is_granted(Out(T1)) <=> Grants(BuiltPolicy, In(T1))
                 /\ BuiltPolicy = NestedExample =>
                       /\ leaves = { << 1, 1 >>, << 2 >> }
                       /\ evaluation_count = 2
                       /\ is_granted(Out(T1))
                 /\ BuiltPolicy = DeeplyNested => ~is_granted(Out(T1))

(* the test's tree, four combinators deep, evaluated: denied after its     *)
(* three leaves were invoked                                               *)
C28_Witness ==
    /\ Done(T1) /\ PolicyEval(T1)
    /\ BuiltPolicy = DeeplyNested
    /\ ~is_granted(Out(T1))
    /\ evaluation_count = 3

----------------------------------------------------------------------------
(* the lines of a text: what stands between its line feeds *)
RECURSIVE SplitLines(_)
SplitLines(text) ==
    LET feeds == {i \in 1..Len(text) : text[i] = LineFeed}
    IN IF feeds = {}
       THEN << text >>
       ELSE << SubSeq(text, 1, FirstOf(feeds) - 1) >>
                \o SplitLines(SubSeq(text, FirstOf(feeds) + 1, Len(text)))

(* the nodes of a result tree in pre-order, each with its depth *)
RECURSIVE Flatten(_)
Flatten(seqs) ==
    IF seqs = << >> THEN << >> ELSE Head(seqs) \o Flatten(Tail(seqs))
RECURSIVE NodesOf(_, _)
NodesOf(r, depth) ==
    << [node |-> r, depth |-> depth] >>
        \o (IF r.tag = "Combined"
            THEN Flatten([i \in 1..Len(r.children) |->
                             NodesOf(r.children[i], depth + 1)])
            ELSE << >>)

(* the line of one node: its indent, its glyph, its name, then what its    *)
(* variant adds                                                            *)
IsLineOf(line, node, spaces) ==
    /\ Len(line) >= spaces + 4
    /\ \A i \in 1..spaces : line[i] = " "
    /\ line[spaces + 1] =
           (IF is_granted(node) THEN SuccessGlyph ELSE FailureGlyph)
    /\ line[spaces + 2] = " "
    /\ line[spaces + 3] = node.policy_type
    /\ SubSeq(line, spaces + 4, Len(line)) =
           CASE node.tag = "Combined" ->
                   << " (", CombineOpDisplay(node.operation), ")" >>
             [] node.tag = "Denied" -> << " DENIED: ", node.reason >>
             [] node.tag = "Granted" ->
                   IF node.reason = None
                   THEN << " GRANTED" >>
                   ELSE << " GRANTED", ": ", Unwrap(node.reason) >>

(* C27: format(indent) of a result tree gives one line per node, in        *)
(* pre-order; the line of a node at depth d starts with indent + 2d        *)
(* spaces, so each child is rendered at its parent's indent plus two, in   *)
(* the order the children are stored; after the spaces come the glyph,     *)
(* the success glyph exactly when the node's outcome is granted, the       *)
(* policy type, and for a Combined node its operation as AND, OR or NOT in *)
(* parentheses; EvalTrace::format is the root's format(0), and the fixed   *)
(* text when the trace has no root.                                        *)
C27_FormatIsStructural ==
    printed # None =>
        LET p == Unwrap(printed)
            lines == SplitLines(p.text)
        IN IF p.call = "EvalTrace::format" /\ p.trace.root = None
           THEN p.text = << "No evaluation trace available" >>
           ELSE LET nodes == NodesOf(Out(T1), 0)
                IN /\ p.call = "EvalTrace::format" =>
                         /\ p.trace.root = Some(Out(T1))
                         /\ p.text = PolicyEvalResult_format(Out(T1), 0)
                   /\ Len(lines) = Len(nodes)
                   /\ \A i \in 1..Len(nodes) :
                         IsLineOf(lines[i], nodes[i].node,
                                  p.indent + 2 * nodes[i].depth)

(* the test's tree rendered at indent 1: seven lines, NOT, AND, Allow, OR, *)
(* Deny, NOT, Deny, the last one nine spaces in                            *)
C27_Witness ==
    /\ printed # None
    /\ Unwrap(printed).call = "PolicyEvalResult::format"
    /\ Unwrap(printed).indent = 1
    /\ BuiltPolicy = DeeplyNested
    /\ Len(SplitLines(Unwrap(printed).text)) = 7
    /\ SubSeq(SplitLines(Unwrap(printed).text)[7], 1, 10) =
           Spaces(9) \o << FailureGlyph >>

----------------------------------------------------------------------------
(* The checker next to an OrPolicy over the same policies: the host clones *)
(* the Arcs of one vec into add_policy and into OrPolicy::try_new, and     *)
(* evaluates both on the same arguments.                                   *)

(* OrPolicy::try_new(policies.clone()) *)
OrOfList ==
    /\ AllIdle /\ builder = None /\ built = None
    /\ policies # << >>
    /\ built' = Some(OrPolicy_try_new(policies))
    /\ UNCHANGED <<policies, builder, EvalVars>>

(* checker.add_policy(policy), before the OrPolicy is made *)
AddListPolicy(p) == built = None /\ AddSharedPolicy(p)

(* checker.evaluate_access(subject, action, resource, context) *)
StartListChecker(t, in) == HasBuilt /\ StartChecker(t, in)

(* or_policy.evaluate_access(..) with the arguments of the checker's call *)
StartOrPolicy(t, checker_call) ==
    /\ pc[t] = "idle" /\ pc[checker_call] # "idle"
    /\ HasBuilt
    /\ input' = [input EXCEPT ![t] = input[checker_call]]
    /\ pc' = [pc EXCEPT ![t] = "running"]
    /\ Invoke(t, BuiltPolicy)
    /\ UNCHANGED <<printed, policies, builder, built, ret, result, returns,
                   audit, evaluation_count, resolver_calls>>

(* One step of either evaluation *)
StepList(t) ==
    \/ CheckerCall(t)
    \/ CheckerResume(t)
    \/ OrCall(t)
    \/ OrResume(t)
    \/ AndCall(t)
    \/ AndResume(t)
    \/ LeafEval(t)
    \/ CountingEval(t)
    \/ RebacCall(t)
    \/ RebacResume(t)

NextList ==
    \/ \E p \in SharedPolicies : AddListPolicy(p)
    \/ OrOfList
    \/ \E in \in SharedInputs : StartListChecker("t1", in)
    \/ StartOrPolicy("t2", "t1")
    \/ StepList("t1")
    \/ StepList("t2")

SpecList == Init /\ [][NextList]_vars

(* the calls an OrPolicy evaluation made below its root *)
BelowRoot(t) == IF calls[t] = << >> THEN << >> ELSE Tail(calls[t])

Comparable(a, b) == IsPrefix(a, b) \/ IsPrefix(b, a)

(* C29: a checker holding the non-empty list P and an OrPolicy built from  *)
(* P, evaluated on the same arguments, go step for step: at every moment   *)
(* the policies one has invoked are, in order, the first of those the      *)
(* other has invoked, a policy both invoked returned the same result to    *)
(* both, and the resolver got the same questions; when both have ended     *)
(* they invoked the same policies in the same order, the checker granted   *)
(* exactly if the OrPolicy's result is granted, both roots are Combined OR *)
(* with the same outcome, and the children of the checker's trace root are *)
(* the children of the OrPolicy's result.                                  *)
C29_CheckerIsOrPolicy ==
    (pc[H1] # "idle" /\ pc[H2] # "idle") =>
        /\ policies # << >>
        /\ BuiltPolicy = OrPolicy_try_new(policies).policy
        /\ In(H1) = In(H2)
        /\ Comparable(calls[H1], BelowRoot(H2))
        /\ Comparable(resolver_calls[H1], resolver_calls[H2])
        /\ \A k1 \in 1..Len(returns[H1]) : \A k2 \in 1..Len(returns[H2]) :
              returns[H1][k1].path = returns[H2][k2].path =>
                  returns[H1][k1] = returns[H2][k2]
        /\ (Done(H1) /\ Done(H2)) =>
              LET root == Unwrap(Out(H1).trace.root)
              IN /\ calls[H1] = BelowRoot(H2)
                 /\ resolver_calls[H1] = resolver_calls[H2]
                 /\ Out(H1).tag = "Granted" <=> is_granted(Out(H2))
                 /\ root.tag = "Combined" /\ Out(H2).tag = "Combined"
                 /\ root.operation = "Or" /\ Out(H2).operation = "Or"
                 /\ root.outcome = Out(H2).outcome
                 /\ root.children = Out(H2).children

(* both ended granted by the AND in second place, after RebacPolicy        *)
(* denied: two children each, the resolver asked once by each              *)
C29_Witness ==
    /\ Done(H1) /\ Done(H2)
    /\ Len(policies) = 2
    /\ policies[1].kind = "RebacPolicy" /\ policies[2].kind = "AndPolicy"
    /\ Out(H1).tag = "Granted" /\ is_granted(Out(H2))
    /\ Len(Out(H2).children) = 2
    /\ Len(resolver_calls[H1]) = 1 /\ Len(resolver_calls[H2]) = 1

----------------------------------------------------------------------------
(* the finished calls of handler t on policies of one kind *)
ResultsOf(t, kind) ==
    {returns[t][k] : k \in ReturnsOf(t, kind)}

SameFor(fields, a, b) == \A f \in fields : a[f] = b[f]

(* C30: two evaluations of the same RbacPolicy whose arguments differ in   *)
(* the context only return the same result; two evaluations of the same    *)
(* RebacPolicy whose arguments differ in the action, the context or both   *)
(* return the same result, and the resolver is asked the same question in  *)
(* both: the call's subject and resource and the policy's label, nothing   *)
(* of the action or the context.                                           *)
C30_UnusedInputsIgnored ==
    /\ \A t \in Tasks : \A i \in 1..Len(resolver_calls[t]) :
          /\ DOMAIN resolver_calls[t][i] = {"subject", "resource", "relationship"}
          /\ resolver_calls[t][i].subject = In(t).subject
          /\ resolver_calls[t][i].resource = In(t).resource
          /\ \E p \in Range(policies) :
                /\ p.kind = "RebacPolicy"
                /\ resolver_calls[t][i].relationship = p.relationship
    /\ (input[H1] # None /\ input[H2] # None) =>
          /\ SameFor({"subject", "action", "resource"}, In(H1), In(H2)) =>
                \A r1 \in ResultsOf(H1, "RbacPolicy") :
                    \A r2 \in ResultsOf(H2, "RbacPolicy") :
                        r1.policy = r2.policy => r1.result = r2.result
          /\ SameFor({"subject", "resource"}, In(H1), In(H2)) =>
                /\ \A r1 \in ResultsOf(H1, "RebacPolicy") :
                      \A r2 \in ResultsOf(H2, "RebacPolicy") :
                          r1.policy = r2.policy => r1.result = r2.result
                /\ \A i \in 1..Len(resolver_calls[H1]) :
                      \A j \in 1..Len(resolver_calls[H2]) :
                          resolver_calls[H1][i] = resolver_calls[H2][j]

(* RbacPolicy and RebacPolicy evaluated by both handlers, for the same     *)
(* subject, action and resource under different contexts                   *)
C30_Witness ==
    /\ Done(H1) /\ Done(H2)
    /\ SameFor({"subject", "action", "resource"}, In(H1), In(H2))
    /\ In(H1).context # In(H2).context
    /\ ResultsOf(H1, "RbacPolicy") # {}
    /\ ResultsOf(H1, "RbacPolicy") = ResultsOf(H2, "RbacPolicy")
    /\ ResultsOf(H1, "RebacPolicy") # {}
    /\ ResultsOf(H1, "RebacPolicy") = ResultsOf(H2, "RebacPolicy")
    /\ resolver_calls[H1] # << >> /\ resolver_calls[H1] = resolver_calls[H2]

====
